---------------------------- MODULE Spec2Model ----------------------------
(***************************************************************************)
(* Address extraction for (zipcode, state) work units.                     *)
(*                                                                         *)
(* The programs of the repository that are modelled, selected by `prog`:   *)
(*   "pipeline"  src/src: ParallelProcessor.processWithRetry driving       *)
(*               AddressExtractor.extractAddress for one work unit;        *)
(*   "orch"      the Playwright test file (src/unnamed/part_001):          *)
(*               initializeCSVHeaders, readZipCodesFromCSV, then           *)
(*               processZipCode / searchForLocationType / updateFinalCSV   *)
(*               for every selected work unit;                             *)
(*   "shard"     the selection of a shard's work units;                    *)
(*   "store"     initializeCSVHeaders and updateFinalCSV called by the     *)
(*               shards of a run on tables of any shape;                   *)
(*   "parallel"  ParallelProcessor.processInParallel with the periodic     *)
(*               and final saves and the signal handlers of extractor.ts;  *)
(*   "text"      cleanText / cleanAddressText on texts of characters;      *)
(*   "parse"     AddressExtractor.parseAddress on address texts;           *)
(*   "page"      AddressExtractor.extractAddressFromPage on one page;      *)
(*   "retry"     processWithRetry for every value of config.retries;       *)
(*   "search"    searchForLocationType on longer lists of results;         *)
(*   "workers"   updateFinalCSV called by the workers of one shard;        *)
(*   "repair"    initializeCSVHeaders on tables with rows without a key;   *)
(*   "resume"    an unsharded run of the test file and the selection of    *)
(*               the run after it;                                         *)
(*   "steps"     GoogleMapsAddressExtractor.extractAddress of the test     *)
(*               suite (src/tests/address-extractor.spec.ts);              *)
(*   "script"    run-local-sharded.sh (src/unnamed/part_000) with its      *)
(*               shards running concurrently.                              *)
(* The browser page is an external collaborator: what it answers at each   *)
(* call (a fault, a list of elements, a text) is chosen by \E.             *)
(***************************************************************************)
EXTENDS Integers, Sequences, FiniteSets, TLC

VARIABLES
    prog,          \* which program runs: "pipeline" | "orch" | "shard" | "store"
                   \* | "parallel" | "text" | "parse" | "page" | "retry" | "search"
                   \* | "workers" | "repair" | "resume" | "steps" | "script"
    \* ---- ParallelProcessor.processWithRetry (one work unit) ----
    retries,       \* config.retries
    attempt,       \* loop variable of processWithRetry
    pwrPc,         \* "loop" | "call" | "delay" | "done" | "off"
    lastError,     \* message of lastError, Undefined while null
    result,        \* the AddressResult processWithRetry returned, NoResult before
    delays,        \* the delay(ms) calls made so far, in order
    attemptsMade,  \* number of extractAddress invocations so far
    \* ---- AddressExtractor.extractAddress (current invocation) ----
    exPc,          \* "idle" | "context" | "newPage" | "goto" | "gotoAlt" | "wait" | "results"
                   \* | "extract" | "goBack" | "close"
    tryAttempt,    \* loop variable `attempt` of tryMultipleResults
    selIdx,        \* index into resultSelectors (0-based)
    addressInfo,   \* last value returned by extractAddressFromPage
    exPending,     \* the value extractAddress is about to return (finally pending)
    settled,       \* how the last extractAddress settled: its result, or what it threw
    navFailed,     \* attempts in which page.goto threw at line 43 and at line 47
    cleanFile,     \* the records writeResults wrote
    contexts,      \* this.contexts of the extractor: the invocations (numbered by
                   \* attemptsMade) whose browsing context is tracked
    \* ---- the test file: configuration, files, dynamic tests ----
    TOTAL_SHARDS, SHARD_INDEX, MAX_RECORDS_PER_SHARD, TARGET_STATE,
    files,         \* path -> file
    zipCodes,      \* the work units readZipCodesFromCSV returned
    testIdx,       \* index (1-based) of the test that runs
    oPc,           \* "init" | "read" | "search" | "click" | "done" | "off"
    \* ---- processZipCode / searchForLocationType (current test) ----
    termIdx,       \* index (1-based) into SEARCH_TYPES
    searchResults, \* number of elements of searchResults
    resIdx,        \* index (1-based) of the searchResult being processed
    completeAddress, \* the aria-label read last
    lastUpsert,    \* the last call of updateFinalCSV and whether it found its row
    shardLoads,    \* what readZipCodesFromCSV gave to each shard of a matrix run
    \* ---- collaborator trace of the current run ----
    lastFault,     \* processWithRetry: message of the fault raised last
    runFault,      \* message of the first fault raised in the current run, or NoFault
    lastOp,        \* collaborator call made by the last step
    \* ---- the record store alone: initializeCSVHeaders and updateFinalCSV ----
    before,        \* the file at csvFilePath before the last call
    writers,       \* path -> the SHARD_INDEX values of the processes that wrote it
    storeCalls,    \* number of calls made so far
    \* ---- extractor.ts main / ParallelProcessor.processInParallel ----
    maxConcurrency, \* config.maxConcurrency
    data,          \* number of work units read (the units are 1..data)
    chunkIdx,      \* loop variable i of processInParallel
    parPc,         \* "batch" | "join" | "save" | "saveDetailed" | "delay" | "returned"
                   \* | "finalDetailed" | "ended" | "failed" | "exited" | "off"
    unitSt,        \* unit -> its processWithRetry: [pc, attempt, lastError, result]
    results,       \* the array results of processInParallel
    saves,         \* the invocations of saveCallback: [batch, received]
    detailedFile,  \* the records writeDetailedResults wrote
    batchDelays,   \* the batches after which delay(1000) was awaited
    \* ---- a text handed to cleanText / cleanAddressText, and again ----
    txt,           \* the text, a sequence of characters
    cleaned,       \* the value returned by the call before the last one
    passes,        \* number of calls made
    \* ---- AddressExtractor.parseAddress on one text ----
    fullAddress,   \* the argument, a sequence of characters
    parsed,        \* the { addressline, city } returned
    parseDone,     \* whether parseAddress has returned
    \* ---- AddressExtractor.extractAddressFromPage on one page ----
    pagePc,        \* "idle" | "selectors" | "fallback" | "returned" | "thrown"
    selector,      \* number of addressSelectors consulted so far
    answer,        \* what the page answered to the locator consulted last
    addressText,   \* addressText
    pageInfo,      \* the { addressline, city } returned
    \* ---- the worker processes of one shard, each in updateFinalCSV ----
    wPc,           \* worker -> "off" | "read" | "write" | "done"
    wOutcome,      \* worker -> the (addressLine, city) its test resolved to
    wContent,      \* worker -> the file as its readFileSync returned it
    \* ---- GoogleMapsAddressExtractor.extractAddress of the test suite ----
    stepPc,        \* "idle" | "start" | "goto" | "load" | "results" | "click" | "clicked"
                   \* | "extract" | "returned"
    stepSel,       \* number of resultSelectors tried so far in step 4
    stepCounter,   \* stepCounter: the screenshots taken
    stepResult,    \* the AddressResult returned, NoResult before
    \* ---- run-local-sharded.sh ----
    shPc,          \* shard -> "off" | "start" | "rewrite" | "test" | "restore" | "mv"
                   \* | "done" | "aborted"
    launched,      \* loop variable i of the launch loop: the shards started
    targetArg,     \* $TARGET_STATE: the states of the second argument, <<"ALL">> by default
    specFile,      \* tests/MyScript.spec.ts: the value of its TARGET_STATE line
    backupFile     \* tests/MyScript.spec.ts.backup: that value, or NoBackup

pipeVars == <<retries, attempt, pwrPc, lastError, result, delays, attemptsMade,
              exPc, tryAttempt, selIdx, addressInfo, exPending,
             settled, navFailed, cleanFile, contexts>>
orchVars == <<TOTAL_SHARDS, SHARD_INDEX, MAX_RECORDS_PER_SHARD, TARGET_STATE, files, zipCodes,
              testIdx, oPc, termIdx, searchResults, resIdx, completeAddress,
              lastUpsert, shardLoads>>
traceVars == <<runFault, lastOp, lastFault>>
storeVars == <<before, writers, storeCalls>>
parVars == <<maxConcurrency, data, chunkIdx, parPc, unitSt, results, saves,
             detailedFile, batchDelays>>
textVars == <<txt, cleaned, passes>>
parseVars == <<fullAddress, parsed, parseDone>>
pageVars == <<pagePc, selector, answer, addressText, pageInfo>>
workerVars == <<wPc, wOutcome, wContent>>
stepVars == <<stepPc, stepSel, stepCounter, stepResult>>
scriptVars == <<shPc, launched, targetArg, specFile, backupFile>>
tailVars == <<stepVars, scriptVars>>
laterVars == <<parseVars, pageVars, workerVars, tailVars>>
restVars == <<textVars, laterVars>>
extVars == <<storeVars, parVars, restVars>>
vars == <<prog, pipeVars, orchVars, traceVars, extVars>>

----------------------------------------------------------------------------
(* Bounds of the model *)

MaxRetries == 2
MaxEntries == 2      \* search results listed by one search
MaxShards == 2       \* TOTAL_SHARDS
MaxPending == 4      \* rows of the master table of a matrix run
MaxShardCount == 3   \* TOTAL_SHARDS of a matrix run
MaxShardCap == 4     \* MAX_RECORDS_PER_SHARD of a matrix run
MaxRows == 2         \* data lines of a table handed to the record store
MaxStoreCalls == 2   \* calls of the record store in one run
MaxUnits == 4        \* work units handed to processInParallel
MaxConcurrency == 2  \* config.maxConcurrency
MaxTextLen == 3      \* characters of a text handed to cleanText
MaxAddressLen == 6   \* characters of a text handed to parseAddress
MaxElements == 2     \* elements a locator of extractAddressFromPage matches
MaxRepairRows == 3      \* data lines of a table that initializeCSVHeaders repairs
MaxSearchResults == 4   \* search results listed to a test that is observed alone
MaxBackoffRetries == 5  \* config.retries of a unit whose waits are observed
MaxScriptShards == 2    \* TOTAL_SHARDS of a run of run-local-sharded.sh

----------------------------------------------------------------------------
(* JavaScript values *)

Undefined == "<undefined>"
NoResult == [kind |-> "none"]
NoFault == "<no fault>"

\* JavaScript truthiness of an optional string (result.error, lastError?.message)
Truthy(s) == s # Undefined /\ s # ""

\* The values a collaborator call can throw: Error objects (with any message,
\* the empty one included) and a value that is not an Error
Faults ==
    { [isError |-> TRUE,  message |-> ""],
      [isError |-> TRUE,  message |-> "Timeout exceeded"],
      [isError |-> FALSE, message |-> "thrown value"] }

\* The faults thrown where the code catches without reading what it caught
\* (addressExtractor.ts lines 44-48 and 121-124, part_001 lines 307-310 and
\* 316-319): which value is thrown makes no difference to the program
IgnoredFaults == { [isError |-> TRUE, message |-> "Timeout exceeded"] }

\* error instanceof Error ? error.message : 'Unknown error'
ErrorMessage(f) == IF f.isError THEN f.message ELSE "Unknown error"

----------------------------------------------------------------------------
(* Texts.  The sample texts and, for each regular expression of the         *)
(* validators, the samples it matches.                                      *)

AddressLineTexts == {"123 Main St", "450 Grand Hotel Ave", "Main St", "77 Sunset Court"}
CityTexts == {"Springfield", "Unknown", "10001"}

\* /\d+/ (validateAddress) and /\d/ (isValidAddressLine)
HasNumber(s) == s \in {"123 Main St", "450 Grand Hotel Ave", "77 Sunset Court", "10001"}

\* /\b(St|Ave|Rd|Dr|Blvd|Way|Lane|Ln|Ct|Pl|Street|Avenue|Road|Drive|Boulevard)\b/i
HasStreetType(s) == s \in {"123 Main St", "450 Grand Hotel Ave", "Main St"}

\* improperPatterns of isProperAddress: hotel, inn, suites, ... some(test)
MatchesImproperPattern(s) == s \in {"450 Grand Hotel Ave"}

IsProperAddress(addressline) == ~MatchesImproperPattern(addressline)

\* city.length > 2 && !/\d{3,}/.test(city) && city !== 'Unknown'
CityValid(city) == city \in {"Springfield"}

\* invalidPatterns of validateAddress: 'not found', 'error', 'n/a', 'null', 'undefined'
ContainsInvalid(s) == s \in {}

ValidateAddress(addressline, city) ==
    IF addressline = "" \/ city = "" THEN FALSE
    ELSE /\ HasNumber(addressline)
         /\ HasStreetType(addressline)
         /\ CityValid(city)
         /\ ~(ContainsInvalid(addressline) \/ ContainsInvalid(city))

\* What extractAddressFromPage can return: { '', '' } when no text qualified,
\* else parseAddress of the text found (the city may come out empty)
AddressInfos ==
    { [addressline |-> "", city |-> ""] }
    \cup { [addressline |-> a, city |-> c] : a \in AddressLineTexts,
                                            c \in {"Springfield", "Unknown", ""} }

----------------------------------------------------------------------------
(* AddressResult values *)

Outcome(a, c, v, e) == [kind |-> "result", addressline |-> a, city |-> c,
                        valid |-> v, error |-> e]

FoundOutcome(info) ==
    Outcome(info.addressline, info.city,
            ValidateAddress(info.addressline, info.city), Undefined)
NotFoundOutcomeNoCity == Outcome("Not Found", "", FALSE, "Address extraction failed")
NotFoundOutcome == Outcome("Not Found", "Not Found", FALSE, "Address extraction failed")
ErrorOutcome(msg) == Outcome("Error", "Error", FALSE, msg)

\* tryMultipleResults returned info: extractAddress lines 56-77
ExtractOutcomeFound(info) == FoundOutcome(info)
ExtractOutcome(info) ==
    IF info.addressline # "" /\ info.city # ""
    THEN FoundOutcome(info)
    ELSE NotFoundOutcome

EmptyInfo == [addressline |-> "", city |-> ""]

----------------------------------------------------------------------------
(* ParallelProcessor.processWithRetry: what it does when the extractAddress *)
(* it awaits settles                                                        *)

\* line 79: result.valid || result.addressline === 'Not Found'
PwrAcceptsValidOnly(r) == r.valid
PwrAccepts(r) == r.valid \/ r.addressline = "Not Found"

\* line 84: attempt < this.config.retries && result.error
PwrRetries(r) == attempt < retries /\ Truthy(r.error)

\* extractAddress resolved with r (lines 76-90)
PwrOnResult(r) ==
    IF ~PwrAccepts(r) /\ PwrRetries(r)
    THEN /\ pwrPc' = "delay"
         /\ UNCHANGED <<attempt, lastError, result, delays>>
    ELSE /\ pwrPc' = "done"
         /\ result' = r
         /\ UNCHANGED <<attempt, lastError, delays>>

\* extractAddress rejected with f (lines 92-99)
PwrOnThrow(f) ==
    /\ lastError' = ErrorMessage(f)
    /\ IF attempt < retries
       THEN pwrPc' = "delay" /\ UNCHANGED attempt
       ELSE pwrPc' = "loop" /\ attempt' = attempt + 1
    /\ UNCHANGED <<result, delays>>

\* top of the for loop (line 74) and the code after it (lines 102-110)
PwrLoop ==
    /\ prog = "pipeline" /\ pwrPc = "loop"
    /\ IF attempt <= retries
       THEN /\ pwrPc' = "call"
            /\ exPc' = "context"
            /\ attemptsMade' = attemptsMade + 1
            /\ runFault' = NoFault
            /\ UNCHANGED result
       ELSE /\ pwrPc' = "done"
            /\ result' = ErrorOutcome(IF Truthy(lastError) THEN lastError
                                       ELSE "Max retries exceeded")
            /\ UNCHANGED <<exPc, attemptsMade, runFault>>
    /\ lastOp' = "none"
    /\ UNCHANGED <<extVars, orchVars, prog, contexts, retries, settled, navFailed, cleanFile, lastFault, attempt, lastError, delays,
                   tryAttempt, selIdx, addressInfo, exPending>>

\* await this.delay(2000 * attempt), then the loop's attempt++ (lines 86-87, 97)
PwrDelay ==
    /\ prog = "pipeline" /\ pwrPc = "delay"
    /\ delays' = Append(delays, 2000 * attempt)
    /\ attempt' = attempt + 1
    /\ pwrPc' = "loop"
    /\ lastOp' = "delay"
    /\ UNCHANGED <<extVars, orchVars, prog, contexts, retries, settled, navFailed, cleanFile, lastFault, lastError, result, attemptsMade, runFault,
                   exPc, tryAttempt, selIdx, addressInfo, exPending>>

----------------------------------------------------------------------------
(* AddressExtractor.extractAddress *)

InCall == prog = "pipeline" /\ pwrPc = "call"

\* a fault is raised in the current run
Raise(f) ==
    /\ runFault' = (IF runFault = NoFault THEN ErrorMessage(f) ELSE runFault)
    /\ lastFault' = ErrorMessage(f)

faultVars == <<runFault, lastFault>>

\* what extractAddress threw
Thrown(f) == [kind |-> "thrown", message |-> ErrorMessage(f)]

\* a throw inside the outer try (line 79): the Error result is returned
\* once the finally block has run
CatchInTry(f) ==
    /\ exPending' = ErrorOutcome(ErrorMessage(f))
    /\ exPc' = "close"

\* createContext (lines 17-29): this.contexts.push(context)
CreateContext(ctxs, id) == ctxs \cup {id}

\* the finally block (lines 90-92) when context.close() returned:
\* this.contexts.filter(ctx => ctx !== context)
RemoveContext(ctxs, id) == ctxs \ {id}

\* line 32: createContext(), before the try block
ExCreateContext ==
    /\ InCall /\ exPc = "context"
    /\ lastOp' = "newContext"
    /\ \/ /\ exPc' = "newPage"
          /\ contexts' = CreateContext(contexts, attemptsMade)
          /\ UNCHANGED <<faultVars, settled, attempt, pwrPc, lastError, result, delays>>
       \/ \E f \in Faults :
            /\ Raise(f)
            /\ exPc' = "idle"
            /\ settled' = Thrown(f)
            /\ PwrOnThrow(f)
            /\ UNCHANGED contexts
    /\ tryAttempt' = 0 /\ selIdx' = 0
    /\ addressInfo' = EmptyInfo /\ exPending' = NoResult
    /\ UNCHANGED <<extVars, orchVars, prog, retries, navFailed, cleanFile, attemptsMade>>

\* line 33: context.newPage(), before the try block
ExNewPage ==
    /\ InCall /\ exPc = "newPage"
    /\ lastOp' = "newPage"
    /\ \/ /\ exPc' = "goto"
          /\ UNCHANGED <<faultVars, settled, attempt, pwrPc, lastError, result, delays>>
       \/ \E f \in Faults :
            /\ Raise(f)
            /\ exPc' = "idle"
            /\ settled' = Thrown(f)
            /\ PwrOnThrow(f)
    /\ UNCHANGED <<extVars, orchVars, prog, contexts, retries, navFailed, cleanFile,
                   attemptsMade, tryAttempt, selIdx, addressInfo, exPending>>

\* line 43: page.goto(searchUrl, domcontentloaded)
ExGoto ==
    /\ InCall /\ exPc = "goto"
    /\ lastOp' = "goto"
    /\ \/ exPc' = "wait" /\ UNCHANGED faultVars
       \/ \E f \in IgnoredFaults : Raise(f) /\ exPc' = "gotoAlt"
    /\ UNCHANGED <<extVars, orchVars, prog, contexts, retries, settled, navFailed, cleanFile, attempt, pwrPc, lastError, result, delays,
                   attemptsMade, tryAttempt, selIdx, addressInfo, exPending>>

\* line 47: the alternative navigation, inside the catch of the first
ExGotoAlt ==
    /\ InCall /\ exPc = "gotoAlt"
    /\ lastOp' = "goto"
    /\ \/ exPc' = "wait" /\ UNCHANGED <<faultVars, exPending, navFailed>>
       \/ \E f \in Faults :
            Raise(f) /\ CatchInTry(f) /\ navFailed' = navFailed + 1
    /\ UNCHANGED <<extVars, orchVars, prog, contexts, retries, settled, cleanFile, attempt, pwrPc, lastError, result, delays,
                   attemptsMade, tryAttempt, selIdx, addressInfo>>

\* line 51: page.waitForTimeout(3000)
ExWait ==
    /\ InCall /\ exPc = "wait"
    /\ lastOp' = "wait"
    /\ \/ exPc' = "results" /\ UNCHANGED <<faultVars, exPending>>
       \/ \E f \in Faults : Raise(f) /\ CatchInTry(f)
    /\ UNCHANGED <<extVars, orchVars, prog, contexts, retries, settled, navFailed, cleanFile, attempt, pwrPc, lastError, result, delays,
                   attemptsMade, tryAttempt, selIdx, addressInfo>>

\* resultSelectors (lines 97-106) and the bound of the loop of line 109
NumResultSelectors == 8
MaxResultAttempts == 3

\* the end of one iteration of the loop of tryMultipleResults (line 109):
\* attempt++, and the return of line 150 when the loop is over
NextResultAttempt ==
    /\ tryAttempt' = tryAttempt + 1
    /\ selIdx' = 0
    /\ IF tryAttempt + 1 < MaxResultAttempts
       THEN exPc' = "results" /\ UNCHANGED exPending
       ELSE exPc' = "close" /\ exPending' = ExtractOutcome(EmptyInfo)

\* lines 113-125: one resultSelector: page.$$(selector), and the click of
\* elements[attempt] when there are enough elements; a throw is swallowed
ExSelector ==
    /\ InCall /\ exPc = "results" /\ selIdx < NumResultSelectors
    /\ \/ /\ lastOp' = "query"                 \* elements.length <= attempt
          /\ selIdx' = selIdx + 1
          /\ UNCHANGED <<exPc, faultVars>>
       \/ \E f \in IgnoredFaults :              \* page.$$ throws
            /\ lastOp' = "query"
            /\ Raise(f)
            /\ selIdx' = selIdx + 1
            /\ UNCHANGED exPc
       \/ \E f \in IgnoredFaults :              \* click throws
            /\ lastOp' = "click"
            /\ Raise(f)
            /\ selIdx' = selIdx + 1
            /\ UNCHANGED exPc
       \/ /\ lastOp' = "click"                 \* clicked: resultClicked = true
          /\ exPc' = "extract"
          /\ UNCHANGED <<selIdx, faultVars>>
    /\ UNCHANGED <<extVars, orchVars, prog, contexts, retries, settled, navFailed, cleanFile, attempt, pwrPc, lastError, result, delays,
                   attemptsMade, tryAttempt, addressInfo, exPending>>

\* lines 127-132 and 150: no selector led to a click
ExNoResult ==
    /\ InCall /\ exPc = "results" /\ selIdx = NumResultSelectors
    /\ lastOp' = "none"
    /\ exPc' = "close"
    /\ exPending' = ExtractOutcome(EmptyInfo)
    /\ UNCHANGED <<extVars, orchVars, prog, contexts, retries, settled, navFailed, cleanFile, lastFault, attempt, pwrPc, lastError, result, delays,
                   attemptsMade, tryAttempt, selIdx, addressInfo, runFault>>

\* lines 135-147: extractAddressFromPage and the isProperAddress check
ExExtractFromPage ==
    /\ InCall /\ exPc = "extract"
    /\ lastOp' = "text"
    /\ \/ \E f \in Faults :
            /\ Raise(f) /\ CatchInTry(f)
            /\ UNCHANGED <<tryAttempt, selIdx, addressInfo>>
       \/ \E info \in AddressInfos :
            /\ addressInfo' = info
            /\ UNCHANGED faultVars
            /\ IF info.addressline # "" /\ info.city # ""
               THEN IF IsProperAddress(info.addressline)
                    THEN /\ exPending' = ExtractOutcome(info)
                         /\ exPc' = "close"
                         /\ UNCHANGED <<tryAttempt, selIdx>>
                    ELSE /\ exPc' = "goBack"
                         /\ UNCHANGED <<tryAttempt, selIdx, exPending>>
               ELSE NextResultAttempt
    /\ UNCHANGED <<extVars, orchVars, prog, contexts, retries, settled, navFailed, cleanFile, attempt, pwrPc, lastError, result, delays,
                   attemptsMade>>

\* lines 144-145: page.goBack() after an improper address
ExGoBack ==
    /\ InCall /\ exPc = "goBack"
    /\ lastOp' = "goBack"
    /\ \/ \E f \in Faults :
            /\ Raise(f) /\ CatchInTry(f)
            /\ UNCHANGED <<tryAttempt, selIdx>>
       \/ NextResultAttempt /\ UNCHANGED faultVars
    /\ UNCHANGED <<extVars, orchVars, prog, contexts, retries, settled, navFailed, cleanFile, attempt, pwrPc, lastError, result, delays,
                   attemptsMade, addressInfo>>

\* lines 89-93: the finally block, then extractAddress settles and the
\* awaiting processWithRetry goes on
ExClose ==
    /\ InCall /\ exPc = "close"
    /\ lastOp' = "close"
    /\ exPc' = "idle"
    /\ \/ /\ PwrOnResult(exPending) /\ settled' = exPending /\ UNCHANGED faultVars
          /\ contexts' = RemoveContext(contexts, attemptsMade)
       \/ \E f \in Faults :
            /\ Raise(f) /\ settled' = Thrown(f) /\ PwrOnThrow(f)
            /\ UNCHANGED contexts
    /\ UNCHANGED <<extVars, orchVars, prog, retries, navFailed, cleanFile, attemptsMade,
                   tryAttempt, selIdx, addressInfo, exPending>>

----------------------------------------------------------------------------
(* CsvUtils.writeResults (csvUtils.ts lines 56-77), called by extractor.ts  *)
(* with the results of processInParallel                                    *)

\* CsvUtils.cleanText (lines 7-24) on the texts of AddressResult values.  The
\* texts extractAddress returns went through cleanAddressText, which makes
\* the same replacements, and the sentinels hold none of the characters
\* removed: the bullet sample shows the prefix removal
CleanText(s) ==
    CASE s = "- 123 Main St" -> "123 Main St"
      [] s = " Springfield " -> "Springfield"
      [] OTHER -> s

\* the record with its texts cleaned and nothing replaced
CleanResultKeepsError(r) ==
    [addressline |-> CleanText(r.addressline), city |-> CleanText(r.city)]
\* lines 68-73: one record of cleanResults
CleanResult(r) ==
    [addressline |-> CleanText(IF r.addressline = "Error" THEN "Not Found"
                               ELSE r.addressline),
     city |-> CleanText(IF r.city = "Error" THEN "Not Found" ELSE r.city)]

\* extractor.ts lines 65-66 after processInParallel returned the results
WriteResults ==
    /\ prog = "pipeline" /\ pwrPc = "done"
    /\ cleanFile' = <<CleanResult(result)>>
    /\ pwrPc' = "written"
    /\ lastOp' = "write"
    /\ UNCHANGED <<extVars, orchVars, prog, contexts, retries, attempt, lastError, result, delays,
                   attemptsMade, exPc, tryAttempt, selIdx, addressInfo, exPending,
                   settled, navFailed, faultVars>>

----------------------------------------------------------------------------
(* Strings of the test file (src/unnamed/part_001).  A string is a sequence *)
(* of tokens: the characters the code splits and trims on are tokens of     *)
(* their own (comma, space, double quote), every other token is a maximal   *)
(* run of other characters.  A file is the sequence of its lines            *)
(* (content.split('\n') / lines.join('\n')).                                *)

COMMA == ","
SP == " "
QUOTE == "\""

\* JavaScript s.split(d) for a one-character d: the pieces between the d's
RECURSIVE Split(_, _)
Split(s, d) ==
    IF \A i \in 1..Len(s) : s[i] # d
    THEN <<s>>
    ELSE LET i == CHOOSE j \in 1..Len(s) : s[j] = d /\ \A k \in 1..(j-1) : s[k] # d
         IN  <<SubSeq(s, 1, i - 1)>> \o Split(SubSeq(s, i + 1, Len(s)), d)

\* parts.join(d)
RECURSIVE Join(_, _)
Join(parts, d) ==
    IF Len(parts) = 0 THEN <<>>
    ELSE IF Len(parts) = 1 THEN parts[1]
    ELSE parts[1] \o <<d>> \o Join(Tail(parts), d)

\* s.trim()
RECURSIVE TrimLeft(_)
TrimLeft(s) == IF s # <<>> /\ Head(s) = SP THEN TrimLeft(Tail(s)) ELSE s
RECURSIVE TrimRight(_)
TrimRight(s) ==
    IF s # <<>> /\ s[Len(s)] = SP THEN TrimRight(SubSeq(s, 1, Len(s) - 1)) ELSE s
Trim(s) == TrimRight(TrimLeft(s))

\* col.replace(/^"|"$/g, '')
StripQuotes(s) ==
    LET a == IF s # <<>> /\ Head(s) = QUOTE THEN Tail(s) ELSE s
    IN  IF a # <<>> /\ a[Len(a)] = QUOTE THEN SubSeq(a, 1, Len(a) - 1) ELSE a

\* `"${s}"`
Quoted(s) == <<QUOTE>> \o s \o <<QUOTE>>

\* s.replace(pat, '') for a string pattern: the first occurrence is removed
RemoveFirst(s, pat) ==
    LET n == Len(pat)
        At(i) == i + n - 1 <= Len(s) /\ SubSeq(s, i, i + n - 1) = pat
    IN  IF \E i \in 1..Len(s) : At(i)
        THEN LET i == CHOOSE j \in 1..Len(s) : At(j) /\ \A k \in 1..(j-1) : ~At(k)
             IN  SubSeq(s, 1, i - 1) \o SubSeq(s, i + n, Len(s))
        ELSE s

\* undefined (or null) where the program expects a string
UndefinedStr == <<"<undefined>">>

\* array[i] of JavaScript (0-based), undefined past the end
Nth(arr, i) == IF i + 1 <= Len(arr) THEN arr[i + 1] ELSE UndefinedStr

\* x?.f(): undefined stays undefined
Opt(x, v) == IF x = UndefinedStr THEN UndefinedStr ELSE v

\* a one-token string
Str(w) == <<w>>
EmptyStr == <<>>

\* !s for an optional string
Falsy(s) == s = UndefinedStr \/ s = EmptyStr

----------------------------------------------------------------------------
(* isValidAddressLine and isValidCity (part_001 lines 31-109) on token      *)
(* strings.  The word tokens of the model and the character classes the     *)
(* regular expressions look for in them:                                    *)

Words == {"Address:", "123", "Main", "St", "450", "Grand", "Hotel", "Ave",
          "Springfield", "4th", "Ward", "NY", "CA", "10001", "10002", "99999",
          "Not", "Found", "Error", "zipcode", "state", "address", "city"}

\* /\d/ matches inside the word
WordsWithDigit == {"123", "450", "4th", "10001", "10002", "99999"}
\* the word is one of St|Street|Ave|...|Hwy|Highway (case-insensitive, \b..\b)
StreetSuffixWords == {"St", "Ave"}
\* /hotel|inn|suites|motel|resort|lodge/i etc. match inside the word
ImproperWords == {"Hotel"}
\* the word matches ^[a-zA-Z'\-\.]+$
CityCharWords == {"Main", "St", "Grand", "Hotel", "Ave", "Springfield", "Ward",
                  "NY", "CA", "Not", "Found", "Error",
                  "zipcode", "state", "address", "city"}
\* /\d{5}/ matches inside the word
FiveDigitWords == {"10001", "10002", "99999"}

HasWordIn(s, set) == \E i \in 1..Len(s) : s[i] \in set

\* number of characters of a token string, as far as the length checks of
\* isValidCity need it (every word token of the model has 2..50 characters)
TooShort(s) == Len(s) = 0 \/ (Len(s) = 1 /\ s[1] \in {SP, COMMA, QUOTE})

IsValidAddressLine(addressLine) ==
    IF Falsy(addressLine) \/ Trim(addressLine) = EmptyStr THEN FALSE
    ELSE LET hasNumber == HasWordIn(addressLine, WordsWithDigit)
             hasStreetSuffix == HasWordIn(addressLine, StreetSuffixWords)
             hasImproperPattern == HasWordIn(addressLine, ImproperWords)
         IN  hasNumber /\ hasStreetSuffix /\ ~hasImproperPattern

IsValidCity(city) ==
    IF Falsy(city) \/ Trim(city) = EmptyStr THEN FALSE
    ELSE LET cleanCity == Trim(city)
             cityPattern == \A i \in 1..Len(cleanCity) :
                               cleanCity[i] \in CityCharWords \cup {SP}
             \* of invalidPatterns only /\d{5}/, /^\d+$/ and the no-letter
             \* pattern can match a model string; cityPattern already
             \* excludes every string they match
             hasInvalidPattern == HasWordIn(cleanCity, FiveDigitWords)
         IN  /\ ~TooShort(cleanCity)
             /\ cityPattern
             /\ ~hasInvalidPattern
             /\ Head(cleanCity) \in CityCharWords

----------------------------------------------------------------------------
(* The CSV files of the test file.  Absent models a path with no file.      *)

Absent == [exists |-> FALSE]
FileOf(lines) == [exists |-> TRUE, lines |-> lines]

MasterPath == <<"FinalZipcodeState", 0, ".csv">>
ShardPath(i) == <<"FinalZipcodeState_shard_", i, ".csv">>

\* 'zipcode,state,address,city'
CanonicalHeader ==
    <<"zipcode", COMMA, "state", COMMA, "address", COMMA, "city">>

\* headerColumns.includes(name)
Includes(columns, name) == \E i \in 1..Len(columns) : columns[i] = Str(name)

\* header.indexOf(name), 0-based, -1 when absent
IndexOf(columns, name) ==
    IF Includes(columns, name)
    THEN (CHOOSE i \in 1..Len(columns) :
             columns[i] = Str(name) /\ \A k \in 1..(i-1) : columns[k] # Str(name)) - 1
    ELSE -1

IsBlank(line) == Trim(line) = EmptyStr

\* lines 126-136 and 380-392: the header is replaced by the canonical one
\* when it lacks the address or the city column
FixHeader(lines) ==
    LET headerColumns == Split(lines[1], COMMA)
    IN  IF ~Includes(headerColumns, "address") \/ ~Includes(headerColumns, "city")
        THEN [lines EXCEPT ![1] = CanonicalHeader]
        ELSE lines

\* TOTAL_SHARDS > 1 ? `FinalZipcodeState_shard_${SHARD_INDEX}.csv` : 'FinalZipcodeState.csv'
CsvFilePathOneOutput(totalShards, shardIndex) ==
    IF totalShards > 1 THEN ShardPath(0) ELSE MasterPath
CsvFilePath(totalShards, shardIndex) ==
    IF totalShards > 1 THEN ShardPath(shardIndex) ELSE MasterPath

----------------------------------------------------------------------------
(* updateFinalCSV (part_001 lines 112-174) *)

\* lines 139-148: the index (1-based, in lines) of the first row whose first
\* two columns are zipcode and state; 0 when there is none
MatchesKey(line, zipcode, state) ==
    LET columns == Split(line, COMMA)
    IN  ~IsBlank(line) /\ Len(columns) >= 2
        /\ columns[1] = zipcode /\ columns[2] = state

FindRow(lines, zipcode, state) ==
    IF \E i \in 2..Len(lines) : MatchesKey(lines[i], zipcode, state)
    THEN CHOOSE i \in 2..Len(lines) :
            /\ MatchesKey(lines[i], zipcode, state)
            /\ \A k \in 2..(i-1) : ~MatchesKey(lines[k], zipcode, state)
    ELSE 0

\* lines 156-159: while (rowColumns.length < 4) rowColumns.push('""')
RECURSIVE PadTo4(_)
PadTo4(columns) ==
    IF Len(columns) < 4 THEN PadTo4(Append(columns, <<QUOTE, QUOTE>>)) ELSE columns

\* the row with the outcome written behind the fields it has
UpdatedRowAppending(line, addressLine, city) ==
    line \o <<COMMA>> \o Quoted(addressLine) \o <<COMMA>> \o Quoted(city)
\* lines 156-169: the rebuilt row
UpdatedRow(line, addressLine, city) ==
    LET rowColumns == PadTo4(Split(line, COMMA))
        columns == [i \in 1..Len(rowColumns) |-> StripQuotes(rowColumns[i])]
    IN  columns[1] \o <<COMMA>> \o columns[2] \o <<COMMA>>
        \o Quoted(addressLine) \o <<COMMA>> \o Quoted(city)

\* the file after updateFinalCSV(zipcode, state, addressLine, city)
UpdateFinalCSV(file, zipcode, state, addressLine, city) ==
    IF ~file.exists THEN file
    ELSE LET lines == FixHeader(file.lines)
             rowIndex == FindRow(lines, zipcode, state)
         IN  IF rowIndex = 0 THEN file
             ELSE FileOf([lines EXCEPT
                            ![rowIndex] = UpdatedRow(lines[rowIndex], addressLine, city)])

\* whether updateFinalCSV finds the row it is to update (lines 116, 150)
RowFound(file, zipcode, state) ==
    file.exists /\ FindRow(FixHeader(file.lines), zipcode, state) # 0

----------------------------------------------------------------------------
(* initializeCSVHeaders (part_001 lines 361-428) *)

\* the loop dropping the blank lines only
RECURSIVE CleanRowsKeepEmptyKey(_)
CleanRowsKeepEmptyKey(rows) ==
    IF rows = <<>> THEN <<>>
    ELSE LET line == Head(rows)
             columns == Split(line, COMMA)
             fixed == IF Len(columns) = 2
                      THEN columns \o << <<QUOTE, QUOTE>>, <<QUOTE, QUOTE>> >>
                      ELSE IF Len(columns) = 3
                      THEN Append(columns, <<QUOTE, QUOTE>>)
                      ELSE columns
         IN  IF IsBlank(line)
             THEN CleanRowsKeepEmptyKey(Tail(rows))
             ELSE <<Join(fixed, COMMA)>> \o CleanRowsKeepEmptyKey(Tail(rows))

\* lines 398-420: the data rows kept, short rows backfilled
RECURSIVE CleanRows(_)
CleanRows(rows) ==
    IF rows = <<>> THEN <<>>
    ELSE LET line == Head(rows)
             columns == Split(line, COMMA)
             fixed == IF Len(columns) = 2
                      THEN columns \o << <<QUOTE, QUOTE>>, <<QUOTE, QUOTE>> >>
                      ELSE IF Len(columns) = 3
                      THEN Append(columns, <<QUOTE, QUOTE>>)
                      ELSE columns
         IN  IF IsBlank(line) \/ columns[1] = EmptyStr \/ columns[1] = <<QUOTE, QUOTE>>
             THEN CleanRows(Tail(rows))
             ELSE <<Join(fixed, COMMA)>> \o CleanRows(Tail(rows))

\* updatedRows of lines 395-417: the rows that were backfilled
UpdatedRows(rows) ==
    Cardinality({ i \in 1..Len(rows) :
        LET columns == Split(rows[i], COMMA)
        IN  /\ ~IsBlank(rows[i])
            /\ columns[1] # EmptyStr /\ columns[1] # <<QUOTE, QUOTE>>
            /\ Len(columns) \in {2, 3} })

\* the file at csvFilePath after initializeCSVHeaders
InitializeCSVHeaders(file, totalShards) ==
    IF totalShards > 1 /\ ~file.exists
    THEN FileOf(<<CanonicalHeader, EmptyStr>>)       \* 'zipcode,...,city\n'
    ELSE IF ~file.exists THEN file
    ELSE LET lines == FixHeader(file.lines)
             cleanedLines == <<lines[1]>> \o CleanRows(Tail(lines))
         IN  IF UpdatedRows(Tail(lines)) > 0 \/ Len(cleanedLines) # Len(lines)
             THEN FileOf(cleanedLines)
             ELSE file

\* whether initializeCSVHeaders calls writeFileSync (lines 366 and 422-425)
InitializeWrites(file, totalShards) ==
    IF totalShards > 1 /\ ~file.exists THEN TRUE
    ELSE IF ~file.exists THEN FALSE
    ELSE LET lines == FixHeader(file.lines)
             cleanedLines == <<lines[1]>> \o CleanRows(Tail(lines))
         IN  UpdatedRows(Tail(lines)) > 0 \/ Len(cleanedLines) # Len(lines)

----------------------------------------------------------------------------
(* readZipCodesFromCSV (part_001 lines 177-262) *)

\* lines 199-207: one data line as { zipcode, state, address, city }
ParseRecord(line, addressIndex, cityIndex) ==
    LET raw == Split(line, COMMA)
        columns == [i \in 1..Len(raw) |-> StripQuotes(Trim(raw[i]))]
    IN  [zipcode |-> Nth(columns, 0), state |-> Nth(columns, 1),
         address |-> Nth(columns, addressIndex), city |-> Nth(columns, cityIndex)]

\* lines 210-223: TARGET_STATE is the string 'ALL', one state, or an array
\* of states
TargetString(v) == [isArray |-> FALSE, value |-> v]
TargetArray(vs) == [isArray |-> TRUE, value |-> vs]
PassesStateFilter(item, targetState) ==
    IF targetState = TargetString("ALL") THEN TRUE
    ELSE IF targetState.isArray
    THEN \E i \in 1..Len(targetState.value) : item.state = Str(targetState.value[i])
    ELSE item.state = Str(targetState.value)

\* lines 226-231
HasNoAddress(item) == Falsy(item.address) \/ Falsy(item.city)

\* lines 186-233: the records without address/city data, in file order
NoAddressRecords(file, targetState) ==
    IF ~file.exists THEN <<>>
    ELSE LET NotBlank(line) == ~IsBlank(line)
             lines == SelectSeq(file.lines, NotBlank)
             header == Split(lines[1], COMMA)
             addressIndex == IndexOf(header, "address")
             cityIndex == IndexOf(header, "city")
             Keep(item) == /\ ~Falsy(item.zipcode) /\ ~Falsy(item.state)
                           /\ PassesStateFilter(item, targetState)
                           /\ HasNoAddress(item)
             items == [i \in 1..(Len(lines) - 1) |->
                          ParseRecord(lines[i + 1], addressIndex, cityIndex)]
         IN  IF addressIndex = -1 \/ cityIndex = -1 THEN <<>>
             ELSE SelectSeq(items, Keep)

\* Math.ceil(n / k)
CeilDivFloor(n, k) == n \div k
CeilDiv(n, k) == (n + k - 1) \div k
Min(a, b) == IF a <= b THEN a ELSE b

\* array.slice(start, end), 0-based, end exclusive
Slice(arr, start, end) ==
    LET lo == Min(start, Len(arr))
        hi == Min(end, Len(arr))
    IN  IF hi <= lo THEN <<>> ELSE SubSeq(arr, lo + 1, hi)

\* lines 238-243
RecordsPerShard(n, totalShards) == CeilDiv(n, totalShards)
StartIndex(n, shardIndex, totalShards) == shardIndex * RecordsPerShard(n, totalShards)
EndIndex(n, shardIndex, totalShards) ==
    Min(StartIndex(n, shardIndex, totalShards) + RecordsPerShard(n, totalShards), n)
ActualEndIndexUncapped(n, shardIndex, totalShards, maxPerShard) ==
    EndIndex(n, shardIndex, totalShards)
ActualEndIndex(n, shardIndex, totalShards, maxPerShard) ==
    Min(EndIndex(n, shardIndex, totalShards),
        StartIndex(n, shardIndex, totalShards) + maxPerShard)

\* lines 236-258: finalRecords
FinalRecords(records, shardIndex, totalShards, maxPerShard) ==
    IF totalShards > 1
    THEN Slice(records, StartIndex(Len(records), shardIndex, totalShards),
               ActualEndIndex(Len(records), shardIndex, totalShards, maxPerShard))
    ELSE records

\* line 261
ReadZipCodesFromCSV(file, targetState, shardIndex, totalShards, maxPerShard) ==
    LET finalRecords == FinalRecords(NoAddressRecords(file, targetState),
                                     shardIndex, totalShards, maxPerShard)
    IN  [i \in 1..Len(finalRecords) |->
            [zipcode |-> finalRecords[i].zipcode, state |-> finalRecords[i].state]]

----------------------------------------------------------------------------
(* processZipCode and searchForLocationType (part_001 lines 265-358) *)

\* SEARCH_TYPES (lines 18-28)
SEARCH_TYPES == <<"post office", "schools", "colleges", "petrol stations",
                  "government office", "apartments", "hospitals", "pharmacies",
                  "police station">>

\* lines 286-289: the fields read out of the aria-label
AddressLineOf(ca) == Trim(Split(RemoveFirst(ca, <<"Address:", SP>>), COMMA)[1])
CityOf(ca) ==
    LET part == Nth(Split(ca, COMMA), 1) IN Opt(part, Trim(part))
StateInCompleteAddress(ca) ==
    LET part == Nth(Split(ca, COMMA), 2)
        word == Opt(part, Nth(Split(Trim(part), SP), 0))
    IN  Opt(word, Trim(word))
ZipcodeInCompleteAddress(ca) ==
    LET part == Nth(Split(ca, COMMA), 2)
        word == Opt(part, Nth(Split(Trim(part), SP), 1))
    IN  Opt(word, Trim(word))

\* line 292
AddressMismatchStateOnly(ca, zipcode, state) == StateInCompleteAddress(ca) # state
AddressMismatch(ca, zipcode, state) ==
    StateInCompleteAddress(ca) # state \/ ZipcodeInCompleteAddress(ca) # zipcode

\* line 303
BothValid(addressLine, city) == IsValidAddressLine(addressLine) /\ IsValidCity(city)

\* lines 284-306: whether the search result with aria-label ca is returned
IsHit(ca, zipcode, state) ==
    /\ ~Falsy(ca)
    /\ ~AddressMismatch(ca, zipcode, state)
    /\ BothValid(AddressLineOf(ca), CityOf(ca))

\* line 305: addressLine || "", city || ""
OrEmpty(x) == IF Falsy(x) THEN EmptyStr ELSE x

NotFoundText == <<"Not", SP, "Found">>
ErrorText == <<"Error">>

\* The aria-labels a result page can show for the unit (zipcode, state);
\* UndefinedStr is getAttribute's null
Label(line, city, tail) ==
    <<"Address:", SP>> \o line \o <<COMMA, SP>> \o city \o tail
MainSt == <<"123", SP, "Main", SP, "St">>
GrandHotel == <<"450", SP, "Grand", SP, "Hotel", SP, "Ave">>
StateZip(state, zipcode) == <<COMMA, SP>> \o state \o <<SP>> \o zipcode
CompleteAddresses(zipcode, state) ==
    { UndefinedStr,
      Label(MainSt, Str("Springfield"), StateZip(state, zipcode)),
      Label(GrandHotel, Str("Springfield"), StateZip(state, zipcode)),
      Label(MainSt, <<"4th", SP, "Ward">>, StateZip(state, zipcode)),
      Label(MainSt, Str("Springfield"), StateZip(state, Str("99999"))),
      Label(MainSt, Str("Springfield"), <<>>) }

InOrch(pc) == prog \in {"orch", "search", "resume"} /\ oPc = pc
Unit == zipCodes[testIdx]
NoUpsert == [called |-> FALSE]

\* a fault is raised in the current run of processZipCode; the first step
\* of a run (the search of the first term) starts the record afresh
OrchRaise(f) ==
    /\ runFault' = (IF runFault = NoFault \/ (oPc = "search" /\ termIdx = 1)
                    THEN ErrorMessage(f) ELSE runFault)
    /\ UNCHANGED lastFault
OrchNoRaise ==
    /\ runFault' = (IF oPc = "search" /\ termIdx = 1 THEN NoFault ELSE runFault)
    /\ UNCHANGED lastFault

\* lines 344-351: updateFinalCSV with the outcome, which ends the test;
\* the next test starts
Finish(addressLine, city) ==
    LET path == CsvFilePath(TOTAL_SHARDS, SHARD_INDEX) IN
    /\ files' = [files EXCEPT ![path] =
                    UpdateFinalCSV(files[path], Unit.zipcode, Unit.state,
                                   addressLine, city)]
    /\ lastUpsert' = [called |-> TRUE, path |-> path,
                      zipcode |-> Unit.zipcode, state |-> Unit.state,
                      addressLine |-> addressLine, city |-> city,
                      rowFound |-> RowFound(files[path], Unit.zipcode, Unit.state),
                      termIdx |-> termIdx, resIdx |-> resIdx,
                      source |-> completeAddress']
    /\ testIdx' = testIdx + 1
    /\ termIdx' = 1
    /\ searchResults' = 0
    /\ resIdx' = 0
    /\ oPc' = IF testIdx < Len(zipCodes) THEN "search" ELSE "done"

\* searchForLocationType returned null (lines 314, 318): the next search
\* type, or "Not Found" after the last one (lines 332-351)
TermFailed ==
    IF termIdx < Len(SEARCH_TYPES)
    THEN /\ termIdx' = termIdx + 1
         /\ searchResults' = 0
         /\ resIdx' = 0
         /\ oPc' = "search"
         /\ UNCHANGED <<files, lastUpsert, testIdx>>
    ELSE Finish(NotFoundText, NotFoundText)

\* the end of one iteration of the loop over searchResults (line 277)
NextSearchResultSkip == TermFailed
NextSearchResult ==
    IF resIdx < searchResults
    THEN /\ resIdx' = resIdx + 1
         /\ UNCHANGED <<files, lastUpsert, testIdx, termIdx, searchResults, oPc>>
    ELSE TermFailed

\* line 275: how many elements locator(...).all() can return
ListedResults == 1..(IF prog = "search" THEN MaxSearchResults ELSE MaxEntries)

\* lines 269-275: page.goto, waitForTimeout, locator(...).all()
OSearch ==
    /\ InOrch("search")
    /\ lastOp' = "goto"
    /\ completeAddress' = UndefinedStr
    /\ \/ \E f \in IgnoredFaults : OrchRaise(f) /\ TermFailed
       \/ /\ OrchNoRaise /\ TermFailed                     \* no search results
       \/ \E n \in ListedResults :
            /\ OrchNoRaise
            /\ searchResults' = n
            /\ resIdx' = 1
            /\ oPc' = "click"
            /\ UNCHANGED <<files, lastUpsert, testIdx, termIdx>>
    /\ UNCHANGED <<extVars, prog, pipeVars, TOTAL_SHARDS, SHARD_INDEX, MAX_RECORDS_PER_SHARD,
                   TARGET_STATE, zipCodes, shardLoads>>

\* lines 278-310: one searchResult: click, waitForTimeout, getAttribute
OClick ==
    /\ InOrch("click")
    /\ lastOp' = "click"
    /\ \/ \E f \in IgnoredFaults :
            /\ OrchRaise(f)
            /\ completeAddress' = UndefinedStr
            /\ NextSearchResult
       \/ \E ca \in CompleteAddresses(Unit.zipcode, Unit.state) :
            /\ OrchNoRaise
            /\ completeAddress' = ca
            /\ IF IsHit(ca, Unit.zipcode, Unit.state)
               THEN Finish(OrEmpty(AddressLineOf(ca)), OrEmpty(CityOf(ca)))
               ELSE NextSearchResult
    /\ UNCHANGED <<extVars, prog, pipeVars, TOTAL_SHARDS, SHARD_INDEX, MAX_RECORDS_PER_SHARD,
                   TARGET_STATE, zipCodes, shardLoads>>

\* line 431: initializeCSVHeaders()
OInitialize ==
    /\ InOrch("init")
    /\ LET path == CsvFilePath(TOTAL_SHARDS, SHARD_INDEX)
       IN  files' = [files EXCEPT ![path] = InitializeCSVHeaders(files[path], TOTAL_SHARDS)]
    /\ oPc' = "read"
    /\ UNCHANGED <<extVars, prog, pipeVars, TOTAL_SHARDS, SHARD_INDEX, MAX_RECORDS_PER_SHARD,
                   TARGET_STATE, zipCodes, shardLoads, testIdx, termIdx, searchResults, resIdx,
                   completeAddress, lastUpsert, traceVars>>

\* lines 434-448: readZipCodesFromCSV(), one test per work unit
ORead ==
    /\ InOrch("read")
    /\ zipCodes' = ReadZipCodesFromCSV(files[MasterPath], TARGET_STATE,
                                       SHARD_INDEX, TOTAL_SHARDS, MAX_RECORDS_PER_SHARD)
    /\ testIdx' = 1
    /\ termIdx' = 1
    /\ oPc' = IF Len(zipCodes') > 0 THEN "search" ELSE "done"
    /\ UNCHANGED <<extVars, prog, pipeVars, TOTAL_SHARDS, SHARD_INDEX, MAX_RECORDS_PER_SHARD,
                   TARGET_STATE, shardLoads, files, searchResults, resIdx,
                   completeAddress, lastUpsert, traceVars>>

----------------------------------------------------------------------------
(* Initial states *)

PendingRow(zipcode, state) ==
    <<zipcode, COMMA, state, COMMA, QUOTE, QUOTE, COMMA, QUOTE, QUOTE>>
ShortRow(zipcode, state) == <<zipcode, COMMA, state>>
DoneRow(zipcode, state) ==
    <<zipcode, COMMA, state, COMMA>> \o Quoted(MainSt) \o <<COMMA>>
    \o Quoted(Str("Springfield"))

\* master tables: all rows pending; a table `zipcode,state` still to be
\* repaired; a table with a row already resolved
MasterTables ==
    { FileOf(<<CanonicalHeader, PendingRow("10001", "NY"), PendingRow("10002", "NY"),
               EmptyStr>>),
      FileOf(<< <<"zipcode", COMMA, "state">>, ShortRow("10001", "NY"),
               ShortRow("10002", "CA")>>),
      FileOf(<<CanonicalHeader, DoneRow("10001", "NY"), PendingRow("10002", "NY"),
               PendingRow("10001", "CA")>>) }

\* the shard's output file: not there yet, or left by an earlier run
ShardFiles == { Absent, FileOf(<<CanonicalHeader>>) }

TargetStates == { TargetString("ALL"), TargetString("NY") }

Paths == {MasterPath} \cup { ShardPath(i) : i \in 0..MaxShards }

PipelineIdle ==
    /\ retries = 0 /\ attempt = 1 /\ pwrPc = "off"
    /\ lastError = Undefined /\ result = NoResult /\ delays = <<>>
    /\ attemptsMade = 0 /\ exPc = "idle" /\ tryAttempt = 0 /\ selIdx = 0
    /\ addressInfo = EmptyInfo /\ exPending = NoResult
    /\ settled = NoResult /\ navFailed = 0 /\ cleanFile = <<>>
    /\ contexts = {}

\* line 15: parseInt(process.env.MAX_RECORDS_PER_SHARD || '1000')
DefaultMaxRecords == 1000

StoreIdle ==
    /\ before = Absent
    /\ writers = [p \in Paths |-> {}]
    /\ storeCalls = 0

ParIdle ==
    /\ maxConcurrency = 1 /\ data = 0 /\ chunkIdx = 0 /\ parPc = "off"
    /\ unitSt = <<>> /\ results = <<>> /\ saves = <<>>
    /\ detailedFile = <<>> /\ batchDelays = <<>>

TextIdle == txt = <<>> /\ cleaned = <<>> /\ passes = 0

ParseIdle ==
    fullAddress = <<>> /\ parsed = [addressline |-> <<>>, city |-> <<>>] /\ parseDone = FALSE

NoAnswer == [raises |-> FALSE, elements |-> <<>>]
PageIdle ==
    /\ pagePc = "idle" /\ selector = 0 /\ answer = NoAnswer
    /\ addressText = <<>> /\ pageInfo = [addressline |-> <<>>, city |-> <<>>]

\* --workers=2 of run_shard (part_000 line 53)
NumWorkers == 2
Workers == 1..NumWorkers
WorkersIdle ==
    /\ wPc = [w \in Workers |-> "off"]
    /\ wOutcome = [w \in Workers |-> [addressLine |-> <<>>, city |-> <<>>]]
    /\ wContent = [w \in Workers |-> Absent]

StepsIdle == stepPc = "idle" /\ stepSel = 0 /\ stepCounter = 0 /\ stepResult = NoResult

NoBackup == [exists |-> FALSE]
ScriptIdle ==
    /\ shPc = <<>> /\ launched = 0 /\ targetArg = <<"ALL">>
    /\ specFile = TargetString("ALL") /\ backupFile = NoBackup

TailIdle == StepsIdle /\ ScriptIdle

LaterIdle == ParseIdle /\ PageIdle /\ WorkersIdle /\ TailIdle
RestIdle == TextIdle /\ LaterIdle

ExtIdle == StoreIdle /\ ParIdle /\ RestIdle

OrchIdle ==
    /\ TOTAL_SHARDS = 1 /\ SHARD_INDEX = 0 /\ MAX_RECORDS_PER_SHARD = 1
    /\ TARGET_STATE = TargetString("ALL")
    /\ files = [p \in Paths |-> Absent]
    /\ zipCodes = <<>> /\ testIdx = 1 /\ oPc = "off"
    /\ termIdx = 1 /\ searchResults = 0 /\ resIdx = 0
    /\ completeAddress = UndefinedStr /\ lastUpsert = NoUpsert
    /\ shardLoads = <<>>

InitOrch ==
    /\ prog = "orch"
    /\ PipelineIdle
    /\ ExtIdle
    /\ TOTAL_SHARDS \in 1..MaxShards
    /\ SHARD_INDEX \in 0..(TOTAL_SHARDS - 1)
    /\ MAX_RECORDS_PER_SHARD \in {1, DefaultMaxRecords}
    /\ TARGET_STATE \in TargetStates
    /\ \E master \in MasterTables, shard \in ShardFiles :
         files = [p \in Paths |->
                    IF p = MasterPath THEN master
                    ELSE IF p = ShardPath(SHARD_INDEX) /\ TOTAL_SHARDS > 1 THEN shard
                    ELSE Absent]
    /\ zipCodes = <<>> /\ testIdx = 1 /\ oPc = "init"
    /\ termIdx = 1 /\ searchResults = 0 /\ resIdx = 0
    /\ completeAddress = UndefinedStr /\ lastUpsert = NoUpsert
    /\ shardLoads = <<>>
    /\ runFault = NoFault /\ lastOp = "none" /\ lastFault = NoFault

\* one test of processZipCode (lines 321-358) for the one unit of a master
\* table that initializeCSVHeaders and readZipCodesFromCSV went through
InitSearch ==
    /\ prog = "search"
    /\ PipelineIdle
    /\ ExtIdle
    /\ TOTAL_SHARDS = 1 /\ SHARD_INDEX = 0
    /\ MAX_RECORDS_PER_SHARD = DefaultMaxRecords
    /\ TARGET_STATE = TargetString("ALL")
    /\ files = [p \in Paths |->
                  IF p = MasterPath
                  THEN FileOf(<<CanonicalHeader, PendingRow("10001", "NY")>>)
                  ELSE Absent]
    /\ zipCodes = ReadZipCodesFromCSV(files[MasterPath], TARGET_STATE, SHARD_INDEX,
                                      TOTAL_SHARDS, MAX_RECORDS_PER_SHARD)
    /\ testIdx = 1 /\ oPc = "search"
    /\ termIdx = 1 /\ searchResults = 0 /\ resIdx = 0
    /\ completeAddress = UndefinedStr /\ lastUpsert = NoUpsert
    /\ shardLoads = <<>>
    /\ runFault = NoFault /\ lastOp = "none" /\ lastFault = NoFault

NextSearch == OSearch \/ OClick

SpecSearch == InitSearch /\ [][NextSearch]_vars

----------------------------------------------------------------------------
(* A run of the test file on one table, and the selection of the run after  *)
(* it (part_001 lines 431-448, run twice)                                  *)

\* a row whose key fields are quoted, and one whose state is padded
QuotedKeyRow(zipcode, state) ==
    <<QUOTE, zipcode, QUOTE, COMMA, QUOTE, state, QUOTE, COMMA, QUOTE, QUOTE, COMMA,
      QUOTE, QUOTE>>
PaddedKeyRow(zipcode, state) == <<zipcode, COMMA, SP, state>>

\* master tables of an unsharded run: plain rows, a table still to be
\* repaired, quoted keys, a padded key, a repeated key
ResumeTables ==
    { FileOf(<<CanonicalHeader, PendingRow("10001", "NY"), PendingRow("10002", "CA")>>),
      FileOf(<< <<"zipcode", COMMA, "state">>, ShortRow("10001", "NY"),
               ShortRow("10002", "NY")>>),
      FileOf(<<CanonicalHeader, QuotedKeyRow("10001", "NY")>>),
      FileOf(<<CanonicalHeader, PaddedKeyRow("10001", "NY")>>),
      FileOf(<<CanonicalHeader, PendingRow("10001", "NY"), PendingRow("10001", "NY")>>) }

InitResume ==
    /\ prog = "resume"
    /\ PipelineIdle
    /\ ExtIdle
    /\ TOTAL_SHARDS = 1 /\ SHARD_INDEX = 0
    /\ MAX_RECORDS_PER_SHARD = DefaultMaxRecords
    /\ TARGET_STATE \in TargetStates
    /\ \E master \in ResumeTables :
         files = [p \in Paths |-> IF p = MasterPath THEN master ELSE Absent]
    /\ zipCodes = <<>> /\ testIdx = 1 /\ oPc = "init"
    /\ termIdx = 1 /\ searchResults = 0 /\ resIdx = 0
    /\ completeAddress = UndefinedStr /\ lastUpsert = NoUpsert
    /\ shardLoads = <<>>
    /\ runFault = NoFault /\ lastOp = "none" /\ lastFault = NoFault

\* the next run of the test file: initializeCSVHeaders and readZipCodesFromCSV
\* on the table the run before it left
OReselect ==
    /\ prog = "resume" /\ oPc = "done"
    /\ LET path == CsvFilePath(TOTAL_SHARDS, SHARD_INDEX)
           repaired == [files EXCEPT ![path] =
                           InitializeCSVHeaders(files[path], TOTAL_SHARDS)]
       IN  /\ files' = repaired
           /\ zipCodes' = ReadZipCodesFromCSV(repaired[MasterPath], TARGET_STATE,
                              SHARD_INDEX, TOTAL_SHARDS, MAX_RECORDS_PER_SHARD)
    /\ oPc' = "reselected"
    /\ UNCHANGED <<extVars, prog, pipeVars, TOTAL_SHARDS, SHARD_INDEX, MAX_RECORDS_PER_SHARD,
                   TARGET_STATE, shardLoads, testIdx, termIdx, searchResults, resIdx,
                   completeAddress, lastUpsert, traceVars>>

NextResume == OInitialize \/ ORead \/ OSearch \/ OClick \/ OReselect

SpecResume == InitResume /\ [][NextResume]_vars

----------------------------------------------------------------------------

InitPipeline ==
    /\ prog = "pipeline"
    /\ OrchIdle
    /\ ExtIdle
    /\ retries \in 0..MaxRetries
    /\ attempt = 1
    /\ pwrPc = "loop"
    /\ lastError = Undefined
    /\ result = NoResult
    /\ delays = <<>>
    /\ attemptsMade = 0
    /\ exPc = "idle"
    /\ tryAttempt = 0
    /\ selIdx = 0
    /\ addressInfo = EmptyInfo
    /\ exPending = NoResult
    /\ settled = NoResult
    /\ navFailed = 0
    /\ cleanFile = <<>>
    /\ contexts = {}
    /\ runFault = NoFault
    /\ lastOp = "none"
    /\ lastFault = NoFault

Init == InitPipeline \/ InitOrch

Next ==
    \/ PwrLoop
    \/ PwrDelay
    \/ ExCreateContext
    \/ ExNewPage
    \/ ExGoto
    \/ ExGotoAlt
    \/ ExWait
    \/ ExSelector
    \/ ExNoResult
    \/ ExExtractFromPage
    \/ ExGoBack
    \/ ExClose
    \/ WriteResults
    \/ OInitialize
    \/ ORead
    \/ OSearch
    \/ OClick

Spec == Init /\ [][Next]_vars

----------------------------------------------------------------------------
(* A matrix run: the shards 0 .. TOTAL_SHARDS-1 each call
   readZipCodesFromCSV on the same master table (the workflow's matrix,
   run-local-sharded.sh, test-sharding.sh) *)

ZipWords == <<"10001", "10002", "10003", "10004", "10005", "10006">>
StateOfRow(j) == IF j % 3 = 0 THEN "CA" ELSE "NY"

\* a master table with n rows to resolve, after a row already resolved
PendingTable(n) ==
    FileOf(<<CanonicalHeader, DoneRow("10009", "NY")>>
           \o [j \in 1..n |-> PendingRow(ZipWords[j], StateOfRow(j))])

InitShard ==
    /\ prog = "shard"
    /\ PipelineIdle
    /\ ExtIdle
    /\ TOTAL_SHARDS \in 1..MaxShardCount
    /\ SHARD_INDEX = 0
    /\ MAX_RECORDS_PER_SHARD \in 0..MaxShardCap
    /\ TARGET_STATE \in TargetStates
    /\ \E n \in 0..MaxPending :
         files = [p \in Paths |-> IF p = MasterPath THEN PendingTable(n) ELSE Absent]
    /\ zipCodes = <<>> /\ testIdx = 1 /\ oPc = "off"
    /\ termIdx = 1 /\ searchResults = 0 /\ resIdx = 0
    /\ completeAddress = UndefinedStr /\ lastUpsert = NoUpsert
    /\ shardLoads = <<>>
    /\ runFault = NoFault /\ lastOp = "none" /\ lastFault = NoFault

\* part_001 lines 177-262, run by the shard SHARD_INDEX; the next shard follows
ShardRead ==
    /\ prog = "shard"
    /\ SHARD_INDEX < TOTAL_SHARDS
    /\ LET records == NoAddressRecords(files[MasterPath], TARGET_STATE)
           n == Len(records)
       IN  /\ zipCodes' = ReadZipCodesFromCSV(files[MasterPath], TARGET_STATE,
                                SHARD_INDEX, TOTAL_SHARDS, MAX_RECORDS_PER_SHARD)
           /\ shardLoads' = Append(shardLoads,
                 [startIndex |-> StartIndex(n, SHARD_INDEX, TOTAL_SHARDS),
                  endIndex |-> EndIndex(n, SHARD_INDEX, TOTAL_SHARDS),
                  units |-> zipCodes'])
    /\ SHARD_INDEX' = SHARD_INDEX + 1
    /\ UNCHANGED <<extVars, prog, pipeVars, TOTAL_SHARDS, MAX_RECORDS_PER_SHARD, TARGET_STATE,
                   files, testIdx, oPc, termIdx, searchResults, resIdx,
                   completeAddress, lastUpsert, traceVars>>

NextShard == ShardRead

SpecShard == InitShard /\ [][NextShard]_vars

----------------------------------------------------------------------------
(* The record store alone.  The processes of a run, one per SHARD_INDEX,    *)
(* share the working directory; each call of initializeCSVHeaders or of     *)
(* updateFinalCSV is made by one of them, on tables of any shape.           *)

OneFieldRow(zipcode) == <<zipcode>>
ThreeFieldRow(zipcode, state) == <<zipcode, COMMA, state, COMMA, QUOTE, QUOTE>>
FiveFieldRow(zipcode, state) == PendingRow(zipcode, state) \o <<COMMA, "Ward">>

\* data lines of 1 to 5 fields, and the empty line
StoreRows ==
    { OneFieldRow("10003"), ShortRow("10001", "NY"), ThreeFieldRow("10001", "NY"),
      PendingRow("10001", "NY"), DoneRow("10002", "NY"),
      FiveFieldRow("10001", "NY"), EmptyStr }

StoreHeaders == { CanonicalHeader, <<"zipcode", COMMA, "state">> }

SeqsUpTo(S, n) == UNION { [1..k -> S] : k \in 0..n }

StoreTables ==
    { FileOf(<<h>> \o rows) : h \in StoreHeaders, rows \in SeqsUpTo(StoreRows, MaxRows) }

\* the outcomes processZipCode hands to updateFinalCSV (lines 344-351)
StoreOutcomes ==
    { [addressLine |-> MainSt, city |-> Str("Springfield")],
      [addressLine |-> NotFoundText, city |-> NotFoundText] }

ShardIndexes == 0..(TOTAL_SHARDS - 1)

InitStore ==
    /\ prog = "store"
    /\ PipelineIdle
    /\ StoreIdle /\ ParIdle /\ RestIdle
    /\ TOTAL_SHARDS \in 1..MaxShards
    /\ SHARD_INDEX = 0
    /\ MAX_RECORDS_PER_SHARD = 1
    /\ TARGET_STATE = TargetString("ALL")
    /\ \E master \in StoreTables \cup {Absent} :
       \E shard \in {Absent, master} :
         files = [p \in Paths |->
                    IF p = MasterPath THEN master
                    ELSE IF TOTAL_SHARDS > 1 /\ p \in { ShardPath(i) : i \in ShardIndexes }
                    THEN shard
                    ELSE Absent]
    /\ zipCodes = <<>> /\ testIdx = 1 /\ oPc = "off"
    /\ termIdx = 1 /\ searchResults = 0 /\ resIdx = 0
    /\ completeAddress = UndefinedStr /\ lastUpsert = NoUpsert
    /\ shardLoads = <<>>
    /\ runFault = NoFault /\ lastOp = "none" /\ lastFault = NoFault

\* the call is made by the process whose SHARD_INDEX is i; wrote tells
\* whether it reached a writeFileSync(csvFilePath, ...)
StoreCall(i, wrote) ==
    LET path == CsvFilePath(TOTAL_SHARDS, i) IN
    /\ prog \in {"store", "repair"}
    /\ storeCalls < MaxStoreCalls
    /\ storeCalls' = storeCalls + 1
    /\ SHARD_INDEX' = i
    /\ before' = files[path]
    /\ writers' = IF wrote THEN [writers EXCEPT ![path] = @ \cup {i}] ELSE writers
    /\ UNCHANGED <<prog, pipeVars, parVars, restVars, TOTAL_SHARDS, MAX_RECORDS_PER_SHARD,
                   TARGET_STATE, zipCodes, testIdx, oPc, termIdx, searchResults, resIdx,
                   completeAddress, shardLoads, runFault, lastFault>>

\* part_001 lines 361-428
StoreInitialize ==
    \E i \in ShardIndexes :
       LET path == CsvFilePath(TOTAL_SHARDS, i) IN
       /\ StoreCall(i, InitializeWrites(files[path], TOTAL_SHARDS))
       /\ files' = [files EXCEPT ![path] = InitializeCSVHeaders(files[path], TOTAL_SHARDS)]
       /\ lastOp' = "initialize"
       /\ UNCHANGED lastUpsert

\* part_001 lines 112-174; writeFileSync (line 171) is reached when the
\* row was found
StoreUpsert ==
    \E i \in ShardIndexes, o \in StoreOutcomes :
       LET path == CsvFilePath(TOTAL_SHARDS, i)
           zipcode == Str("10001")
           state == Str("NY")
       IN  /\ StoreCall(i, RowFound(files[path], zipcode, state))
           /\ files' = [files EXCEPT ![path] =
                           UpdateFinalCSV(files[path], zipcode, state,
                                          o.addressLine, o.city)]
           /\ lastUpsert' = [called |-> TRUE, path |-> path,
                             zipcode |-> zipcode, state |-> state,
                             addressLine |-> o.addressLine, city |-> o.city,
                             rowFound |-> RowFound(files[path], zipcode, state),
                             termIdx |-> 0, resIdx |-> 0, source |-> UndefinedStr]
           /\ lastOp' = "upsert"

NextStore == StoreInitialize \/ StoreUpsert

SpecStore == InitStore /\ [][NextStore]_vars

\* initializeCSVHeaders alone, on tables with lines that it drops: blank
\* lines, and rows whose first column is '' or '""'
EmptyKeyRow(state) == <<COMMA, state>>
QuotedEmptyKeyRow(state) == <<QUOTE, QUOTE, COMMA, state, COMMA, QUOTE, QUOTE, COMMA, QUOTE, QUOTE>>
RepairRows ==
    { EmptyStr, <<SP>>, EmptyKeyRow("NY"), QuotedEmptyKeyRow("NY"),
      OneFieldRow("10003"), ShortRow("10001", "NY"), PendingRow("10002", "NY"),
      DoneRow("10004", "CA") }
RepairTables ==
    { FileOf(<<h>> \o rows) : h \in StoreHeaders, rows \in SeqsUpTo(RepairRows, MaxRepairRows) }

InitRepair ==
    /\ prog = "repair"
    /\ PipelineIdle
    /\ StoreIdle /\ ParIdle /\ RestIdle
    /\ TOTAL_SHARDS \in 1..MaxShards
    /\ SHARD_INDEX = 0
    /\ MAX_RECORDS_PER_SHARD = 1
    /\ TARGET_STATE = TargetString("ALL")
    /\ \E table \in RepairTables :
         files = [p \in Paths |->
                    IF p = MasterPath THEN table
                    ELSE IF TOTAL_SHARDS > 1 /\ p = ShardPath(0) THEN table
                    ELSE Absent]
    /\ zipCodes = <<>> /\ testIdx = 1 /\ oPc = "off"
    /\ termIdx = 1 /\ searchResults = 0 /\ resIdx = 0
    /\ completeAddress = UndefinedStr /\ lastUpsert = NoUpsert
    /\ shardLoads = <<>>
    /\ runFault = NoFault /\ lastOp = "none" /\ lastFault = NoFault

NextRepair == StoreInitialize

SpecRepair == InitRepair /\ [][NextRepair]_vars

----------------------------------------------------------------------------
(* extractor.ts main: processInParallel over all work units with the        *)
(* incremental saveCallback, the final save, and the signal handlers.  The  *)
(* processWithRetry of every unit of a batch runs concurrently; the         *)
(* extractAddress it awaits is seen by how it settles.                      *)

\* parallelProcessor.ts line 53: i % 50 === 0
SaveEvery == 50

\* chunkArray (lines 113-119)
RECURSIVE ChunkArrayWide(_, _)
ChunkArrayWide(array, chunkSize) ==
    IF array = <<>> THEN <<>>
    ELSE <<Slice(array, 0, chunkSize + 1)>>
         \o ChunkArrayWide(Slice(array, chunkSize + 1, Len(array)), chunkSize)
RECURSIVE ChunkArray(_, _)
ChunkArray(array, chunkSize) ==
    IF array = <<>> THEN <<>>
    ELSE <<Slice(array, 0, chunkSize)>>
         \o ChunkArray(Slice(array, chunkSize, Len(array)), chunkSize)

Chunks == ChunkArray([u \in 1..data |-> u], maxConcurrency)
\* the batch with its units in the opposite order
ChunkReversed ==
    LET chunk == Chunks[chunkIdx + 1]
    IN  [k \in 1..Len(chunk) |-> chunk[Len(chunk) + 1 - k]]
\* line 30: chunks[i]
Chunk == Chunks[chunkIdx + 1]
InChunk(u) == \E k \in 1..Len(Chunk) : Chunk[k] = u

\* how an extractAddress can settle: the results of lines 60-88, or a throw
\* of createContext / newPage / context.close
UnitSettles ==
    { FoundOutcome([addressline |-> "123 Main St", city |-> "Springfield"]),
      NotFoundOutcome, ErrorOutcome("Navigation failed") }
    \cup { Thrown(f) : f \in IgnoredFaults }

UnitIdle == [pc |-> "idle", attempt |-> 1, lastError |-> Undefined, result |-> NoResult]

\* processWithRetry returned r: its promise is resolved, its locals are gone
UnitReturns(r) == [pc |-> "done", attempt |-> 0, lastError |-> Undefined, result |-> r]

\* processWithRetry lines 74 and 102-110: the loop test, and the return
\* after the loop
UnitLoop(st) ==
    IF st.attempt <= retries
    THEN [st EXCEPT !.pc = "call"]
    ELSE UnitReturns(ErrorOutcome(IF Truthy(st.lastError) THEN st.lastError
                                  ELSE "Max retries exceeded"))

\* lines 76-90: extractAddress resolved with r
UnitOnResult(st, r) ==
    IF ~PwrAccepts(r) /\ st.attempt < retries /\ Truthy(r.error)
    THEN [st EXCEPT !.pc = "delay"]
    ELSE UnitReturns(r)

\* lines 92-99: extractAddress rejected
UnitOnThrowRejects(st, message) == [st EXCEPT !.pc = "rejected"]
UnitOnThrow(st, message) ==
    IF st.attempt < retries
    THEN [st EXCEPT !.lastError = message, !.pc = "delay"]
    ELSE UnitLoop([st EXCEPT !.lastError = message, !.attempt = @ + 1])

\* line 53: saveCallback && (i % 50 === 0 || i === chunks.length - 1)
SavesAfter(i) == i % SaveEvery = 0 \/ i = Len(Chunks) - 1

\* csvUtils.ts lines 68-73 and 93-98: the records written
CleanRecords(rs) ==
    [k \in 1..Len(rs) |->
        [unit |-> rs[k].unit,
         addressline |-> CleanResult(rs[k].outcome).addressline,
         city |-> CleanResult(rs[k].outcome).city]]
DetailedRecords(rs) ==
    [k \in 1..Len(rs) |->
        [unit |-> rs[k].unit,
         addressline |-> CleanText(rs[k].outcome.addressline),
         city |-> CleanText(rs[k].outcome.city),
         valid |-> rs[k].outcome.valid,
         error |-> IF Truthy(rs[k].outcome.error) THEN CleanText(rs[k].outcome.error)
                   ELSE rs[k].outcome.error]]

\* extractor.ts lines 89-97: the handlers call process.exit(0) and nothing
\* else; what a file holds after the exit
OnSignalFlush(file, pending) == pending
OnSignal(file, pending) == file

InPar(pc) == prog = "parallel" /\ parPc = pc

parFrame == <<prog, orchVars, storeVars, restVars, maxConcurrency, data, attempt, pwrPc, lastError,
              result, delays, attemptsMade, exPc, tryAttempt, selIdx, addressInfo,
              exPending, settled, navFailed, contexts, retries, runFault, lastFault>>

InitParallel ==
    /\ prog = "parallel"
    /\ OrchIdle
    /\ StoreIdle
    /\ RestIdle
    /\ retries \in 0..MaxRetries
    /\ attempt = 1 /\ pwrPc = "off"
    /\ lastError = Undefined /\ result = NoResult /\ delays = <<>>
    /\ attemptsMade = 0 /\ exPc = "idle" /\ tryAttempt = 0 /\ selIdx = 0
    /\ addressInfo = EmptyInfo /\ exPending = NoResult
    /\ settled = NoResult /\ navFailed = 0 /\ cleanFile = <<>>
    /\ contexts = {}
    /\ maxConcurrency \in 1..MaxConcurrency
    /\ data \in 1..MaxUnits
    /\ chunkIdx = 0
    /\ parPc = "batch"
    /\ unitSt = [u \in 1..data |-> UnitIdle]
    /\ results = <<>> /\ saves = <<>>
    /\ detailedFile = <<>> /\ batchDelays = <<>>
    /\ runFault = NoFault /\ lastOp = "none" /\ lastFault = NoFault

\* lines 34-41: chunk.map starts the processWithRetry of every unit of the
\* batch; each runs to its first await
ParDispatch ==
    /\ InPar("batch")
    /\ unitSt' = [u \in 1..data |-> IF InChunk(u) THEN UnitLoop(unitSt[u]) ELSE unitSt[u]]
    /\ parPc' = "join"
    /\ lastOp' = "dispatch"
    /\ UNCHANGED <<parFrame, chunkIdx, results, saves, cleanFile, detailedFile, batchDelays>>

\* the extractAddress a unit awaits settles (line 76)
UnitSettle ==
    /\ InPar("join")
    /\ \E u \in 1..data, s \in UnitSettles :
         /\ unitSt[u].pc = "call"
         /\ unitSt' = [unitSt EXCEPT ![u] =
                          IF s.kind = "thrown" THEN UnitOnThrow(@, s.message)
                          ELSE UnitOnResult(@, s)]
    /\ lastOp' = "settle"
    /\ UNCHANGED <<parFrame, chunkIdx, parPc, results, saves, cleanFile, detailedFile,
                   batchDelays>>

\* the delay(2000 * attempt) a unit awaits is over (lines 86-87, 97)
UnitDelay ==
    /\ InPar("join")
    /\ \E u \in 1..data :
         /\ unitSt[u].pc = "delay"
         /\ unitSt' = [unitSt EXCEPT ![u] = UnitLoop([@ EXCEPT !.attempt = @ + 1])]
    /\ lastOp' = "delay"
    /\ UNCHANGED <<parFrame, chunkIdx, parPc, results, saves, cleanFile, detailedFile,
                   batchDelays>>

\* after the batch (lines 58-64): the delay before the next batch, or the return
AfterBatch == IF chunkIdx < Len(Chunks) - 1 THEN "delay" ELSE "returned"

\* lines 43-53: Promise.all resolves when every promise of the batch did,
\* and rejects when one rejects (main then exits, extractor.ts lines 80-82)
BatchJoined == \A u \in 1..data : InChunk(u) => unitSt[u].pc = "done"
BatchRejected == \E u \in 1..data : InChunk(u) /\ unitSt[u].pc = "rejected"

ParJoin ==
    /\ InPar("join")
    /\ \/ /\ BatchRejected
          /\ parPc' = "failed"
          /\ UNCHANGED results
       \/ /\ BatchJoined
          /\ results' = results \o [k \in 1..Len(Chunk) |->
                                      [unit |-> Chunk[k], outcome |-> unitSt[Chunk[k]].result]]
          /\ parPc' = IF SavesAfter(chunkIdx) THEN "save" ELSE AfterBatch
    /\ lastOp' = "join"
    /\ UNCHANGED <<parFrame, chunkIdx, unitSt, saves, cleanFile, detailedFile, batchDelays>>

\* line 55 and extractor.ts line 54: saveCallback(results), writeResults
ParSave ==
    /\ InPar("save")
    /\ saves' = Append(saves, [batch |-> chunkIdx, received |-> results])
    /\ cleanFile' = CleanRecords(results)
    /\ parPc' = "saveDetailed"
    /\ lastOp' = "write"
    /\ UNCHANGED <<parFrame, chunkIdx, unitSt, results, detailedFile, batchDelays>>

\* extractor.ts line 55: writeDetailedResults, the end of saveCallback
ParSaveDetailed ==
    /\ InPar("saveDetailed")
    /\ detailedFile' = DetailedRecords(saves[Len(saves)].received)
    /\ parPc' = AfterBatch
    /\ lastOp' = "write"
    /\ UNCHANGED <<parFrame, chunkIdx, unitSt, results, saves, cleanFile, batchDelays>>

\* lines 59-61: delay(1000), then i++
ParBatchDelay ==
    /\ InPar("delay")
    /\ batchDelays' = Append(batchDelays, chunkIdx)
    /\ chunkIdx' = chunkIdx + 1
    /\ parPc' = "batch"
    /\ lastOp' = "delay"
    /\ UNCHANGED <<parFrame, unitSt, results, saves, cleanFile, detailedFile>>

\* extractor.ts line 65: the final writeResults
MainSave ==
    /\ InPar("returned")
    /\ cleanFile' = CleanRecords(results)
    /\ parPc' = "finalDetailed"
    /\ lastOp' = "write"
    /\ UNCHANGED <<parFrame, chunkIdx, unitSt, results, saves, detailedFile, batchDelays>>

\* extractor.ts line 66: the final writeDetailedResults
MainSaveDetailed ==
    /\ InPar("finalDetailed")
    /\ detailedFile' = DetailedRecords(results)
    /\ parPc' = "ended"
    /\ lastOp' = "write"
    /\ UNCHANGED <<parFrame, chunkIdx, unitSt, results, saves, cleanFile, batchDelays>>

\* extractor.ts lines 89-97: SIGINT or SIGTERM while main runs
Interrupt ==
    /\ prog = "parallel"
    /\ parPc \notin {"off", "ended", "failed", "exited"}
    /\ parPc' = "exited"
    /\ cleanFile' = OnSignal(cleanFile, CleanRecords(results))
    /\ detailedFile' = OnSignal(detailedFile, DetailedRecords(results))
    /\ lastOp' = "signal"
    /\ UNCHANGED <<parFrame, chunkIdx, unitSt, results, saves, batchDelays>>

NextParallel ==
    \/ ParDispatch
    \/ UnitSettle
    \/ UnitDelay
    \/ ParJoin
    \/ ParSave
    \/ ParSaveDetailed
    \/ ParBatchDelay
    \/ MainSave
    \/ MainSaveDetailed
    \/ Interrupt

SpecParallel == InitParallel /\ [][NextParallel]_vars

----------------------------------------------------------------------------
(* CsvUtils.cleanText (csvUtils.ts lines 7-24) and cleanAddressText         *)
(* (addressExtractor.ts lines 231-246) on texts as sequences of characters. *)
(* One character stands for each class the regular expressions tell apart.  *)

Chars ==
    { "a",        \* a letter or digit
      "-",        \* the ASCII hyphen of the leading class
      "BULLET",   \* U+00B7, U+2022, U+2023, U+25E6, ... of the leading class
      " ",        \* the ASCII space
      "NBSP",     \* U+00A0, U+2000-U+200A, U+202F, U+205F, U+3000
      "ZWSP",     \* U+200B-U+200D
      "BOM",      \* U+FEFF
      "PUA" }     \* U+E000-U+F8FF

\* \s of JavaScript regular expressions, and what trim() removes
Whitespace == {" ", "NBSP", "BOM"}
\* [\u00B7\u2022\-\s\u2022\u2023...] of the second replace
LeadingClass == {"-", "BULLET"} \cup Whitespace

\* replace(/[set]/g, '')
RemoveAll(s, set) == SelectSeq(s, LAMBDA c : c \notin set)

\* replace(/^[set]+/, '')
RECURSIVE RemoveLeading(_, _)
RemoveLeading(s, set) ==
    IF s # <<>> /\ Head(s) \in set THEN RemoveLeading(Tail(s), set) ELSE s

\* replace(/[set]/g, ' ')
ReplaceAll(s, set, by) == [i \in 1..Len(s) |-> IF s[i] \in set THEN by ELSE s[i]]

\* replace(/\s+/g, ' ')
RECURSIVE CollapseWhitespace(_)
CollapseWhitespace(s) ==
    IF s = <<>> THEN <<>>
    ELSE IF Head(s) \in Whitespace
    THEN <<" ">> \o CollapseWhitespace(RemoveLeading(s, Whitespace))
    ELSE <<Head(s)>> \o CollapseWhitespace(Tail(s))

\* trim()
RECURSIVE RemoveTrailing(_, _)
RemoveTrailing(s, set) ==
    IF s # <<>> /\ s[Len(s)] \in set THEN RemoveTrailing(SubSeq(s, 1, Len(s) - 1), set)
    ELSE s
TrimWhitespace(s) == RemoveTrailing(RemoveLeading(s, Whitespace), Whitespace)

\* addressExtractor.ts lines 231-246: the chain of replacements, in order
CleanAddressText(s) ==
    LET noPrivateUse == RemoveAll(s, {"PUA"})
        noLeading == RemoveLeading(noPrivateUse, LeadingClass)
        noZeroWidth == RemoveAll(noLeading, {"ZWSP", "BOM"})
        asciiSpaces == ReplaceAll(noZeroWidth, {"NBSP"}, " ")
    IN  TrimWhitespace(CollapseWhitespace(asciiSpaces))

\* csvUtils.ts lines 7-24: if (!text) return text, then the same chain
CleanTextChars(s) == IF s = <<>> THEN s ELSE CleanAddressText(s)

InitText ==
    /\ prog = "text"
    /\ PipelineIdle
    /\ OrchIdle
    /\ StoreIdle /\ ParIdle /\ LaterIdle
    /\ txt \in SeqsUpTo(Chars, MaxTextLen)
    /\ cleaned = <<>>
    /\ passes = 0
    /\ runFault = NoFault /\ lastOp = "none" /\ lastFault = NoFault

\* the text goes through cleanAddressText (extractAddressFromPage, lines 197 and 213)
TextCleanAddress ==
    /\ prog = "text" /\ passes = 0
    /\ txt' = CleanAddressText(txt)
    /\ cleaned' = txt
    /\ passes' = 1
    /\ lastOp' = "cleanAddressText"
    /\ UNCHANGED <<prog, pipeVars, orchVars, storeVars, parVars, laterVars, runFault, lastFault>>

\* the text goes through cleanText (writeResults, csvUtils.ts lines 71-72)
TextClean ==
    /\ prog = "text" /\ passes \in {0, 1}
    /\ txt' = CleanTextChars(txt)
    /\ cleaned' = txt
    /\ passes' = passes + 1
    /\ lastOp' = "cleanText"
    /\ UNCHANGED <<prog, pipeVars, orchVars, storeVars, parVars, laterVars, runFault, lastFault>>

NextText == TextCleanAddress \/ TextClean

SpecText == InitText /\ [][NextText]_vars

----------------------------------------------------------------------------
(* AddressExtractor.parseAddress (addressExtractor.ts lines 248-283) on      *)
(* texts as sequences of characters.  "St" stands for the street suffixes    *)
(* of the regular expression of line 269, "4" for the digits.                *)

AddressChars == {"4", "S", "t", SP, COMMA}
Digits == {"4"}
UpperCase == {"S"}

\* the flag i of /.../i: letters compare by their lower-case form
LowerCase(c) == IF c = "S" THEN "s" ELSE c
StreetSuffix == <<"s", "t">>
SuffixEndsAt(s, e) ==
    /\ e - Len(StreetSuffix) >= 0 /\ e <= Len(s)
    /\ \A k \in 1..Len(StreetSuffix) :
           LowerCase(s[e - Len(StreetSuffix) + k]) = StreetSuffix[k]

\* /^(\d+.*?(?:St|Ave|...))/i: the ends of the matches that start at the first
\* character: one digit or more, then anything, then a suffix
StreetMatchEnds(s) ==
    { e \in 1..Len(s) : /\ s[1] \in Digits
                        /\ SuffixEndsAt(s, e)
                        /\ e - Len(StreetSuffix) >= 1 }

\* the same expression without the anchor ^, matched from one position
StreetMatchEndsAnywhere(s, from) ==
    { e \in from..Len(s) : /\ s[from] \in Digits
                           /\ SuffixEndsAt(s, e)
                           /\ e - Len(StreetSuffix) >= from }

\* looksLikeAddress (lines 226-229): /\d+.*?(St|Ave|...)/i.test(text)
LooksLikeAddress(s) == \E i \in 1..Len(s) : StreetMatchEndsAnywhere(s, i) # {}

\* .*? is lazy: match(...)[1] is the shortest match
SetMin(S) == CHOOSE x \in S : \A y \in S : x <= y

\* /\s+[A-Z]{2}\s+\d{5}.*$/ matches from position i
StateZipAt(s, i) ==
    \E j \in (i + 1)..Len(s) : \E k \in (j + 3)..Len(s) :
        /\ \A m \in i..(j - 1) : s[m] \in Whitespace
        /\ s[j] \in UpperCase /\ s[j + 1] \in UpperCase
        /\ \A m \in (j + 2)..(k - 1) : s[m] \in Whitespace
        /\ k + 4 <= Len(s)
        /\ \A m \in k..(k + 4) : s[m] \in Digits

\* city.replace(/\s+[A-Z]{2}\s+\d{5}.*$/, '')
RemoveStateZip(s) ==
    LET at == { i \in 1..Len(s) : StateZipAt(s, i) }
    IN  IF at = {} THEN s ELSE SubSeq(s, 1, SetMin(at) - 1)

UnknownCity == <<"Unknown">>

\* lines 248-283; nothing in the try block throws on a string
ParseAddress(text) ==
    LET address == CleanAddressText(text)
        parts == Split(address, COMMA)
    IN  IF Len(parts) >= 2
        THEN [addressline |-> TrimWhitespace(parts[1]),
              city |-> TrimWhitespace(RemoveStateZip(TrimWhitespace(parts[2])))]
        ELSE IF StreetMatchEnds(address) # {}
        THEN LET addressline == SubSeq(address, 1, SetMin(StreetMatchEnds(address)))
                 remaining == TrimWhitespace(SubSeq(address, Len(addressline) + 1, Len(address)))
                 city == TrimWhitespace(Split(remaining, COMMA)[1])
             IN  [addressline |-> addressline,
                  city |-> IF city = <<>> THEN UnknownCity ELSE city]
        ELSE [addressline |-> address, city |-> UnknownCity]

InitParse ==
    /\ prog = "parse"
    /\ PipelineIdle
    /\ OrchIdle
    /\ StoreIdle /\ ParIdle /\ TextIdle /\ PageIdle /\ WorkersIdle /\ TailIdle
    /\ fullAddress \in SeqsUpTo(AddressChars, MaxAddressLen)
    /\ parsed = [addressline |-> <<>>, city |-> <<>>]
    /\ parseDone = FALSE
    /\ runFault = NoFault /\ lastOp = "none" /\ lastFault = NoFault

\* extractAddressFromPage, line 220: parseAddress(addressText)
Parse ==
    /\ prog = "parse" /\ ~parseDone
    /\ parsed' = ParseAddress(fullAddress)
    /\ parseDone' = TRUE
    /\ lastOp' = "parseAddress"
    /\ UNCHANGED <<prog, pipeVars, orchVars, storeVars, parVars, textVars, pageVars,
                   workerVars, tailVars, fullAddress, runFault, lastFault>>

NextParse == Parse

SpecParse == InitParse /\ [][NextParse]_vars

----------------------------------------------------------------------------
(* The worker processes of one shard (npx playwright test --workers=2 with   *)
(* fullyParallel: true): each runs the test of another unit and ends it in   *)
(* updateFinalCSV (part_001 lines 112-174), whose readFileSync (line 121)    *)
(* and writeFileSync (line 171) are two steps for the other processes.       *)

\* the unit of each worker's test
WorkerUnit(w) == [zipcode |-> Str(ZipWords[w]), state |-> Str("NY")]

WorkerOutcomes ==
    StoreOutcomes \cup { [addressLine |-> ErrorText, city |-> ErrorText] }

\* tables that hold a row for the unit of every worker
WorkerTables ==
    { FileOf(<<CanonicalHeader>> \o [w \in Workers |-> PendingRow(ZipWords[w], "NY")]),
      FileOf(<<CanonicalHeader, DoneRow("10009", "NY")>>
             \o [w \in Workers |-> PendingRow(ZipWords[w], "NY")] \o <<EmptyStr>>),
      FileOf(<< <<"zipcode", COMMA, "state">> >>
             \o [w \in Workers |-> ShortRow(ZipWords[w], "NY")]) }

InWorkers == prog = "workers"
OutputPath == CsvFilePath(TOTAL_SHARDS, SHARD_INDEX)
workersFrame == <<prog, pipeVars, storeVars, parVars, textVars, parseVars, pageVars, tailVars,
                  TOTAL_SHARDS, SHARD_INDEX, MAX_RECORDS_PER_SHARD, TARGET_STATE,
                  zipCodes, testIdx, oPc, termIdx, searchResults, resIdx, completeAddress,
                  lastUpsert, shardLoads, runFault, lastFault, wOutcome>>

InitWorkers ==
    /\ prog = "workers"
    /\ PipelineIdle
    /\ StoreIdle /\ ParIdle /\ TextIdle /\ ParseIdle /\ PageIdle /\ TailIdle
    /\ TOTAL_SHARDS \in 1..MaxShards
    /\ SHARD_INDEX = 0
    /\ MAX_RECORDS_PER_SHARD = DefaultMaxRecords
    /\ TARGET_STATE = TargetString("ALL")
    /\ \E table \in WorkerTables :
         files = [p \in Paths |-> IF p = OutputPath THEN table ELSE Absent]
    /\ zipCodes = [w \in Workers |-> WorkerUnit(w)]
    /\ testIdx = 1 /\ oPc = "off"
    /\ termIdx = 1 /\ searchResults = 0 /\ resIdx = 0
    /\ completeAddress = UndefinedStr /\ lastUpsert = NoUpsert
    /\ shardLoads = <<>>
    /\ wPc = [w \in Workers |-> "read"]
    /\ wOutcome \in [Workers -> WorkerOutcomes]
    /\ wContent = [w \in Workers |-> Absent]
    /\ runFault = NoFault /\ lastOp = "none" /\ lastFault = NoFault

\* lines 116-121: existsSync, readFileSync; the rest of updateFinalCSV works
\* on what was read
WorkerRead ==
    /\ InWorkers
    /\ \E w \in Workers :
         /\ wPc[w] = "read"
         /\ wContent' = [wContent EXCEPT ![w] = files[OutputPath]]
         /\ wPc' = [wPc EXCEPT ![w] =
                       IF RowFound(files[OutputPath], WorkerUnit(w).zipcode,
                                   WorkerUnit(w).state)
                       THEN "write" ELSE "done"]
    /\ lastOp' = "readFile"
    /\ UNCHANGED <<workersFrame, files>>

\* lines 123-171: the lines read, with the row of the unit rebuilt, are
\* written over the file
WorkerWrite ==
    /\ InWorkers
    /\ \E w \in Workers :
         /\ wPc[w] = "write"
         /\ files' = [files EXCEPT ![OutputPath] =
                         UpdateFinalCSV(wContent[w], WorkerUnit(w).zipcode,
                                        WorkerUnit(w).state, wOutcome[w].addressLine,
                                        wOutcome[w].city)]
         /\ wPc' = [wPc EXCEPT ![w] = "done"]
    /\ lastOp' = "writeFile"
    /\ UNCHANGED <<workersFrame, wContent>>

NextWorkers == WorkerRead \/ WorkerWrite

SpecWorkers == InitWorkers /\ [][NextWorkers]_vars

----------------------------------------------------------------------------
(* ParallelProcessor.processWithRetry for one unit whose extractAddress      *)
(* settles with any outcome, with the waits it awaits between attempts.      *)

\* lines 86 and 97: this.delay(2000 * attempt)
BackoffDelay(n) == 2000 * n

InRetry == prog = "retry"
retryFrame == <<prog, orchVars, storeVars, restVars, retries, maxConcurrency, data, attempt,
                pwrPc, lastError, result, exPc, tryAttempt, selIdx,
                addressInfo, exPending, settled, navFailed, contexts, chunkIdx, parPc,
                results, saves, cleanFile, detailedFile, batchDelays, runFault, lastFault>>

InitRetry ==
    /\ prog = "retry"
    /\ OrchIdle
    /\ StoreIdle
    /\ RestIdle
    /\ retries \in 0..MaxBackoffRetries
    /\ attempt = 1 /\ pwrPc = "off"
    /\ lastError = Undefined /\ result = NoResult /\ delays = <<>>
    /\ attemptsMade = 0 /\ exPc = "idle" /\ tryAttempt = 0 /\ selIdx = 0
    /\ addressInfo = EmptyInfo /\ exPending = NoResult
    /\ settled = NoResult /\ navFailed = 0 /\ cleanFile = <<>>
    /\ contexts = {}
    /\ maxConcurrency = 1
    /\ data = 1
    /\ chunkIdx = 0
    /\ parPc = "batch"
    /\ unitSt = [u \in 1..data |-> UnitLoop(UnitIdle)]
    /\ results = <<>> /\ saves = <<>>
    /\ detailedFile = <<>> /\ batchDelays = <<>>
    /\ runFault = NoFault /\ lastOp = "none" /\ lastFault = NoFault

\* what extractAddress settles with: a result, or any fault
RetrySettles == UnitSettles \cup { Thrown(f) : f \in Faults }

\* lines 75-99: extractAddress was called and settled
RetrySettle ==
    /\ InRetry
    /\ \E s \in RetrySettles :
         /\ unitSt[1].pc = "call"
         /\ attemptsMade' = attemptsMade + 1
         /\ unitSt' = [unitSt EXCEPT ![1] =
                          IF s.kind = "thrown" THEN UnitOnThrow(@, s.message)
                          ELSE UnitOnResult(@, s)]
    /\ lastOp' = "settle"
    /\ UNCHANGED <<retryFrame, delays>>

\* lines 86-87 and 97: await this.delay(2000 * attempt), then the next round
RetryDelay ==
    /\ InRetry
    /\ unitSt[1].pc = "delay"
    /\ delays' = Append(delays, BackoffDelay(unitSt[1].attempt))
    /\ unitSt' = [unitSt EXCEPT ![1] = UnitLoop([@ EXCEPT !.attempt = @ + 1])]
    /\ lastOp' = "delay"
    /\ UNCHANGED <<retryFrame, attemptsMade>>

NextRetry == RetrySettle \/ RetryDelay

SpecRetry == InitRetry /\ [][NextRetry]_vars

----------------------------------------------------------------------------
(* AddressExtractor.extractAddressFromPage (addressExtractor.ts lines        *)
(* 174-224).  The page answers each locator with a fault or with a list of   *)
(* elements; the textContent of an element is a text, null, or a fault.      *)

NumAddressSelectors == 10

NullText == <<"null">>
ThrowingElement == <<"throws">>
\* "4 St": looks like an address, 4 characters
ShortAddress == <<"4", SP, "S", "t">>
\* "tt tt tt tt tt tt": 17 characters, no digit
PlainText == <<"t", "t", SP, "t", "t", SP, "t", "t", SP, "t", "t", SP, "t", "t", SP, "t", "t">>
\* "  44 Sttt St": 12 characters
AddressA == <<SP, SP, "4", "4", SP, "S", "t", "t", "t", SP, "S", "t">>
\* "444 Sttt St, Stt": 16 characters
AddressB == <<"4", "4", "4", SP, "S", "t", "t", "t", SP, "S", "t", COMMA, SP, "S", "t", "t">>
ElementTexts == {NullText, ThrowingElement, ShortAddress, PlainText, AddressA, AddressB}

\* page.$$(selector) throws, or returns elements
PageAnswers ==
    {[raises |-> TRUE, elements |-> <<>>]}
    \cup {[raises |-> FALSE, elements |-> e] : e \in SeqsUpTo(ElementTexts, MaxElements)}

\* line 196: text && text.length > 10 && this.looksLikeAddress(text)
QualifiesListed(t) == t # NullText /\ t # <<>> /\ Len(t) > 10 /\ LooksLikeAddress(t)
\* line 212: text && text.length > 15 && text.length < 200 && this.looksLikeAddress(text)
QualifiesFallback(t) ==
    t # NullText /\ t # <<>> /\ Len(t) > 15 /\ Len(t) < 200 /\ LooksLikeAddress(t)

\* the condition of the loop that runs: the fallback's, or the selectors'
Qualifies(t, fallback) == IF fallback THEN QualifiesFallback(t) ELSE QualifiesListed(t)

\* the loop over the elements leaving at the last element that ends it
ScanElementsLast(elements, fallback) ==
    LET ends == { i \in 1..Len(elements) :
                     elements[i] = ThrowingElement \/ Qualifies(elements[i], fallback) }
    IN  IF ends = {} THEN [kind |-> "none"]
        ELSE LET i == CHOOSE x \in ends : \A y \in ends : x >= y
             IN  IF elements[i] = ThrowingElement THEN [kind |-> "throws"]
                 ELSE [kind |-> "text", text |-> CleanAddressText(elements[i])]

\* for (const element of elements) { text = await element.textContent(); if
\* (...) { addressText = this.cleanAddressText(text); break; } }: the loop is
\* left at the first element whose textContent throws or whose text qualifies
ScanElements(elements, fallback) ==
    LET ends == { i \in 1..Len(elements) :
                     elements[i] = ThrowingElement \/ Qualifies(elements[i], fallback) }
    IN  IF ends = {} THEN [kind |-> "none"]
        ELSE LET i == SetMin(ends)
             IN  IF elements[i] = ThrowingElement THEN [kind |-> "throws"]
                 ELSE [kind |-> "text", text |-> CleanAddressText(elements[i])]

NoAddressInfo == [addressline |-> <<>>, city |-> <<>>]

InPage == prog = "page"
pageFrame == <<prog, pipeVars, orchVars, storeVars, parVars, textVars, parseVars,
               workerVars, tailVars, runFault>>

InitPage ==
    /\ prog = "page"
    /\ PipelineIdle
    /\ OrchIdle
    /\ StoreIdle /\ ParIdle /\ TextIdle /\ ParseIdle /\ WorkersIdle /\ TailIdle
    /\ pagePc = "selectors" /\ selector = 0 /\ answer = NoAnswer
    /\ addressText = <<>> /\ pageInfo = NoAddressInfo
    /\ runFault = NoFault /\ lastOp = "none" /\ lastFault = NoFault

\* lines 220-223, reached when the loops are left
PageReturns(text) ==
    /\ pagePc' = "returned"
    /\ addressText' = text
    /\ pageInfo' = IF text # <<>> THEN ParseAddress(text) ELSE NoAddressInfo

\* lines 191-205: one round of for (const selector of addressSelectors)
PageSelector ==
    /\ InPage /\ pagePc = "selectors"
    /\ \E a \in PageAnswers :
         LET found == IF a.raises THEN [kind |-> "throws"]
                      ELSE ScanElements(a.elements, FALSE)
         IN  /\ answer' = a
             /\ selector' = selector + 1
             /\ IF found.kind = "text" /\ found.text # <<>>
                THEN PageReturns(found.text)
                ELSE IF selector + 1 < NumAddressSelectors
                THEN UNCHANGED <<pagePc, addressText, pageInfo>>
                ELSE pagePc' = "fallback" /\ UNCHANGED <<addressText, pageInfo>>
    /\ lastOp' = "selector"
    /\ UNCHANGED <<pageFrame, lastFault>>

\* lines 207-218: page.$$('span, div'), outside any try block
PageFallback ==
    /\ InPage /\ pagePc = "fallback"
    /\ \E a \in PageAnswers :
         LET found == IF a.raises THEN [kind |-> "throws"]
                      ELSE ScanElements(a.elements, TRUE)
         IN  /\ answer' = a
             /\ IF found.kind = "throws"
                THEN /\ pagePc' = "thrown"
                     /\ \E f \in Faults : lastFault' = f
                     /\ UNCHANGED <<addressText, pageInfo>>
                ELSE /\ PageReturns(IF found.kind = "text" THEN found.text ELSE <<>>)
                     /\ UNCHANGED lastFault
    /\ lastOp' = "fallback"
    /\ UNCHANGED <<pageFrame, selector>>

NextPage == PageSelector \/ PageFallback

SpecPage == InitPage /\ [][NextPage]_vars

----------------------------------------------------------------------------
(* GoogleMapsAddressExtractor.extractAddress of the test suite              *)
(* (tests/address-extractor.spec.ts lines 49-182): five steps inside one    *)
(* try block, each reporting its failure with reportStepFailure.            *)

\* resultSelectors of step 4 (lines 106-113)
NumClickSelectors == 6

\* new Error(`Step ${stepNumber} failed: ${error}`)
StepMessage(stepNumber, error) ==
    CASE stepNumber = 1 /\ error = "Navigation failed" ->
           "Step 1 failed: Navigation failed"
      [] stepNumber = 2 /\ error = "Page loading failed" ->
           "Step 2 failed: Page loading failed"
      [] stepNumber = 3 /\ error = "No search results found" ->
           "Step 3 failed: No search results found"
      [] stepNumber = 4 /\ error = "No clickable search results found" ->
           "Step 4 failed: No clickable search results found"
      [] stepNumber = 5 /\ error = "Could not extract valid address information" ->
           "Step 5 failed: Could not extract valid address information"
      [] stepNumber = 5 /\ error = "Address extraction failed" ->
           "Step 5 failed: Address extraction failed"
StepError(stepNumber, error) ==
    [isError |-> TRUE, message |-> StepMessage(stepNumber, error)]

\* reportStepFailure that logs the failure and returns
ReportStepFailureLogs(stepNumber, error) == { [thrown |-> FALSE, fault |-> NoFault] }
\* lines 43-47: the ways reportStepFailure completes: its screenshot throws,
\* or it throws the error of the step
ReportStepFailure(stepNumber, error) ==
    { [thrown |-> TRUE, fault |-> f] : f \in Faults }
    \cup { [thrown |-> TRUE, fault |-> StepError(stepNumber, error)] }

\* lines 172-180: the return after the try block
StepNotFound == Outcome("Not Found", "Not Found", FALSE, "Extraction failed")

InSteps(pc) == prog = "steps" /\ stepPc = pc
stepsFrame == <<prog, pipeVars, orchVars, traceVars, storeVars, parVars, textVars, parseVars,
                pageVars, workerVars, scriptVars>>

\* lines 161-170: the catch of the outer try block
StepCaught(f) ==
    /\ stepResult' = ErrorOutcome(ErrorMessage(f))
    /\ stepPc' = "returned"

\* a step failed with `error`: reportStepFailure is awaited; when it throws
\* the outer catch returns, when it returns the code after the step goes on
StepFailed(stepNumber, error, next) ==
    \E c \in ReportStepFailure(stepNumber, error) :
       IF c.thrown THEN StepCaught(c.fault)
       ELSE stepPc' = next /\ UNCHANGED stepResult

\* a step of lines 57-100: the page calls of the step, then its screenshot,
\* inside the try block of the step
StepOf(pc, stepNumber, error, next) ==
    /\ InSteps(pc)
    /\ \/ /\ stepCounter' = stepCounter + 1               \* calls and screenshot done
          /\ stepPc' = next
          /\ UNCHANGED stepResult
       \/ /\ stepCounter' = stepCounter + 1               \* a page call threw
          /\ StepFailed(stepNumber, error, next)
       \/ /\ stepCounter' = stepCounter + 2               \* the screenshot threw
          /\ StepFailed(stepNumber, error, next)
    /\ UNCHANGED <<stepsFrame, stepSel>>

InitSteps ==
    /\ prog = "steps"
    /\ PipelineIdle /\ OrchIdle
    /\ StoreIdle /\ ParIdle /\ TextIdle /\ ParseIdle /\ PageIdle /\ WorkersIdle /\ ScriptIdle
    /\ stepPc = "start" /\ stepSel = 0 /\ stepCounter = 0 /\ stepResult = NoResult
    /\ runFault = NoFault /\ lastOp = "none" /\ lastFault = NoFault

\* lines 51-53: the first screenshot, inside the outer try block only
StepStart ==
    /\ InSteps("start")
    /\ stepCounter' = stepCounter + 1
    /\ \/ stepPc' = "goto" /\ UNCHANGED stepResult
       \/ \E f \in Faults : StepCaught(f)
    /\ UNCHANGED <<stepsFrame, stepSel>>

\* lines 57-66: step 1, page.goto
StepGoto == StepOf("goto", 1, "Navigation failed", "load")

\* lines 68-83: step 2, waitForTimeout and the cookie button
StepLoad == StepOf("load", 2, "Page loading failed", "results")

\* lines 85-100: step 3, waitForSelector
StepResults == StepOf("results", 3, "No search results found", "click")

\* lines 115-130: one iteration of the loop over resultSelectors, and after
\* the last one the test of resultClicked
StepClick ==
    /\ InSteps("click")
    /\ stepSel < NumClickSelectors
    /\ \/ /\ stepSel' = stepSel                            \* visible and clicked: break
          /\ stepPc' = "clicked"
          /\ UNCHANGED <<stepResult, stepCounter>>
       \/ /\ stepSel' = stepSel + 1                        \* not visible, or a call threw
          /\ IF stepSel' < NumClickSelectors
             THEN UNCHANGED <<stepPc, stepResult, stepCounter>>
             ELSE /\ stepCounter' = stepCounter + 1
                  /\ StepFailed(4, "No clickable search results found", "clicked")
    /\ UNCHANGED stepsFrame

\* line 132: the screenshot after step 4, inside the outer try block only
StepClicked ==
    /\ InSteps("clicked")
    /\ stepCounter' = stepCounter + 1
    /\ \/ stepPc' = "extract" /\ UNCHANGED stepResult
       \/ \E f \in Faults : StepCaught(f)
    /\ UNCHANGED <<stepsFrame, stepSel>>

\* lines 134-158 and 172-180: step 5, extractAddressFromPage; the failure
\* reported in the try block is caught by the catch of the step, which
\* reports again; past the try blocks the 'Not Found' result is returned
StepExtract ==
    /\ InSteps("extract")
    /\ \/ \E info \in AddressInfos :
            /\ stepCounter' = stepCounter + 1
            /\ info.addressline # "" /\ info.city # ""
            /\ stepResult' = FoundOutcome(info)
            /\ stepPc' = "returned"
       \/ \E info \in AddressInfos :
            /\ ~(info.addressline # "" /\ info.city # "")
            /\ stepCounter' = stepCounter + 3
            /\ stepPc' = "returned"
            /\ \E c \in ReportStepFailure(5, "Could not extract valid address information") :
                 IF c.thrown
                 THEN \E d \in ReportStepFailure(5, "Address extraction failed") :
                         stepResult' = IF d.thrown THEN ErrorOutcome(ErrorMessage(d.fault))
                                       ELSE StepNotFound
                 ELSE stepResult' = StepNotFound
       \/ /\ stepCounter' = stepCounter + 1                \* extractAddressFromPage threw
          /\ stepPc' = "returned"
          /\ \E d \in ReportStepFailure(5, "Address extraction failed") :
               stepResult' = IF d.thrown THEN ErrorOutcome(ErrorMessage(d.fault))
                             ELSE StepNotFound
    /\ UNCHANGED <<stepsFrame, stepSel>>

NextSteps ==
    \/ StepStart
    \/ StepGoto
    \/ StepLoad
    \/ StepResults
    \/ StepClick
    \/ StepClicked
    \/ StepExtract

SpecSteps == InitSteps /\ [][NextSteps]_vars

----------------------------------------------------------------------------
(* run-local-sharded.sh (src/unnamed/part_000): the launch loop starts       *)
(* run_shard for every shard in a background subshell; the subshells share  *)
(* tests/MyScript.spec.ts and tests/MyScript.spec.ts.backup.                *)

\* line 78
MAX_PARALLEL == 4

\* the second argument of the script: ALL, one state, several states
TargetArgs == { <<"ALL">>, <<"NY">>, <<"CA", "NY">> }

\* lines 36-42: FORMATTED_STATE
FormattedState(arg) == IF Len(arg) > 1 THEN TargetArray(arg) ELSE TargetString(arg[1])

\* line 48: sed replaces the line that assigns 'ALL', and no other line
SedTargetState(content, arg) ==
    IF content = TargetString("ALL") THEN FormattedState(arg) ELSE content

ScriptShards == 0..(TOTAL_SHARDS - 1)
Running == { i \in ScriptShards : shPc[i] \notin {"off", "done", "aborted"} }
InShard(i, pc) == prog = "script" /\ shPc[i] = pc
scriptFrame == <<prog, pipeVars, orchVars, traceVars, storeVars, parVars, textVars, parseVars,
                 pageVars, workerVars, stepVars, targetArg>>

InitScript ==
    /\ prog = "script"
    /\ PipelineIdle
    /\ TOTAL_SHARDS \in 1..MaxScriptShards
    /\ SHARD_INDEX = 0 /\ MAX_RECORDS_PER_SHARD = 1
    /\ TARGET_STATE = TargetString("ALL")
    /\ files = [p \in Paths |-> Absent]
    /\ zipCodes = <<>> /\ testIdx = 1 /\ oPc = "off"
    /\ termIdx = 1 /\ searchResults = 0 /\ resIdx = 0
    /\ completeAddress = UndefinedStr /\ lastUpsert = NoUpsert
    /\ shardLoads = <<>>
    /\ StoreIdle /\ ParIdle /\ TextIdle /\ ParseIdle /\ PageIdle /\ WorkersIdle /\ StepsIdle
    /\ shPc = [i \in ScriptShards |-> "off"]
    /\ launched = 0
    /\ targetArg \in TargetArgs
    /\ specFile = TargetString("ALL")
    /\ backupFile = NoBackup
    /\ runFault = NoFault /\ lastOp = "none" /\ lastFault = NoFault

\* lines 82-105: run_shard $i & once fewer than MAX_PARALLEL shards run
ShLaunch ==
    /\ prog = "script"
    /\ launched < TOTAL_SHARDS
    /\ Cardinality(Running) < MAX_PARALLEL
    /\ shPc' = [shPc EXCEPT ![launched] = "start"]
    /\ launched' = launched + 1
    /\ UNCHANGED <<scriptFrame, specFile, backupFile>>

\* lines 35-45: nothing to do for ALL, else cp of the test file to the backup
ShBackup ==
    \E i \in ScriptShards :
       /\ InShard(i, "start")
       /\ IF targetArg = <<"ALL">>
          THEN /\ shPc' = [shPc EXCEPT ![i] = "test"]
               /\ UNCHANGED backupFile
          ELSE /\ shPc' = [shPc EXCEPT ![i] = "rewrite"]
               /\ backupFile' = [exists |-> TRUE, content |-> specFile]
       /\ UNCHANGED <<scriptFrame, launched, specFile>>

\* line 48: sed -i on the test file
ShRewrite ==
    \E i \in ScriptShards :
       /\ InShard(i, "rewrite")
       /\ specFile' = SedTargetState(specFile, targetArg)
       /\ shPc' = [shPc EXCEPT ![i] = "test"]
       /\ UNCHANGED <<scriptFrame, launched, backupFile>>

\* lines 52-60: npx playwright test; under set -e (line 6) a failing test
\* run ends the subshell at once
ShTest ==
    \E i \in ScriptShards, exitCode \in {0, 1} :
       /\ InShard(i, "test")
       /\ shPc' = [shPc EXCEPT ![i] = IF exitCode = 0 THEN "restore" ELSE "aborted"]
       /\ UNCHANGED <<scriptFrame, launched, specFile, backupFile>>

\* line 63: the test of the target state and of the backup file
ShRestore ==
    \E i \in ScriptShards :
       /\ InShard(i, "restore")
       /\ shPc' = [shPc EXCEPT ![i] =
                     IF targetArg # <<"ALL">> /\ backupFile.exists THEN "mv" ELSE "done"]
       /\ UNCHANGED <<scriptFrame, launched, specFile, backupFile>>

\* line 64: mv of the backup over the test file; mv fails when the backup is
\* gone, which ends the subshell
ShMove ==
    \E i \in ScriptShards :
       /\ InShard(i, "mv")
       /\ IF backupFile.exists
          THEN /\ specFile' = backupFile.content
               /\ backupFile' = NoBackup
               /\ shPc' = [shPc EXCEPT ![i] = "done"]
          ELSE /\ shPc' = [shPc EXCEPT ![i] = "aborted"]
               /\ UNCHANGED <<specFile, backupFile>>
       /\ UNCHANGED <<scriptFrame, launched>>

NextScript ==
    \/ ShLaunch
    \/ ShBackup
    \/ ShRewrite
    \/ ShTest
    \/ ShRestore
    \/ ShMove

SpecScript == InitScript /\ [][NextScript]_vars

----------------------------------------------------------------------------
(* Properties of processWithRetry and extractAddress *)

\* how an attempt ended
EndedInError(s) ==
    s.kind = "thrown" \/ (s.kind = "result" /\ s.addressline = "Error")
EndedAccepted(s) ==
    s.kind = "result" /\ (s.valid \/ s.addressline = "Not Found")

\* C1: processWithRetry makes a further attempt, or waits a backoff delay,
\* only after an attempt that ended in Error (an Error outcome or a thrown
\* fault).  An attempt that returned a Valid or a 'Not Found' outcome is
\* returned at once: that outcome is the final result, and no attempt and no
\* delay follow it.
C1_RetryOnlyAfterError ==
    prog = "pipeline" =>
        /\ EndedAccepted(settled) =>
              /\ pwrPc \in {"done", "written"}
              /\ result = settled
              /\ Len(delays) = attemptsMade - 1
        /\ (settled.kind # "none" /\ pwrPc \in {"delay", "loop", "call"}) =>
              EndedInError(settled)
        /\ Len(delays) <= attemptsMade

C1_Witness ==
    /\ prog = "pipeline" /\ pwrPc = "done"
    /\ retries >= 2 /\ attemptsMade = 1 /\ delays = <<>>
    /\ settled.kind = "result" /\ settled.addressline = "Not Found"
    /\ result = settled

\* C2: when the navigation throws in every attempt, the final outcome is
\* Error/Error with the message of the last fault, and exactly `retries`
\* attempts were made.
C2_NavigationFaultUsesAllRetries ==
    (prog = "pipeline" /\ pwrPc \in {"done", "written"} /\ navFailed = attemptsMade) =>
        /\ result.addressline = "Error" /\ result.city = "Error"
        /\ attemptsMade > 0 => result.error = lastFault
        /\ attemptsMade = retries

\* the outcome extractAddress is about to return, at the end of a run in
\* which no collaborator call threw: every candidate read was rejected
RejectedRun ==
    /\ prog = "pipeline" /\ pwrPc = "call" /\ exPc = "close"
    /\ runFault = NoFault /\ ~exPending.valid

\* the test of processZipCode that ended last ended without a hit
RejectedUnit ==
    /\ prog = "orch" /\ lastUpsert.called
    /\ ~( /\ ~Falsy(lastUpsert.source)
          /\ StateInCompleteAddress(lastUpsert.source) = lastUpsert.state
          /\ ZipcodeInCompleteAddress(lastUpsert.source) = lastUpsert.zipcode
          /\ IsValidAddressLine(AddressLineOf(lastUpsert.source))
          /\ IsValidCity(CityOf(lastUpsert.source)) )

UnitNotFound ==
    lastUpsert.addressLine = <<"Not", SP, "Found">>
    /\ lastUpsert.city = <<"Not", SP, "Found">>

SentinelOutcome(r) ==
    \/ r.addressline = "Not Found" /\ r.city = "Not Found"
    \/ r.addressline = "Error" /\ r.city = "Error"

InvalidIsSentinel(r) == (r.kind = "result" /\ ~r.valid) => SentinelOutcome(r)

InvalidIsSentinelOrCandidate(r) ==
    (r.kind = "result" /\ ~r.valid) =>
        IF r.error # Undefined
        THEN SentinelOutcome(r)
        ELSE /\ r.addressline \notin {"", "Not Found", "Error"}
             /\ r.city \notin {"", "Not Found", "Error"}
             /\ IsProperAddress(r.addressline)
             /\ ~ValidateAddress(r.addressline, r.city)

C5_FaultAbortsRun ==
    /\ (prog = "pipeline" /\ pwrPc = "call" /\ runFault # NoFault) =>
          exPc = "close" /\ exPending = ErrorOutcome(runFault)
    /\ (prog = "orch" /\ runFault # NoFault) =>
          /\ oPc \in {"search", "done"} /\ termIdx = 1
          /\ lastUpsert.called
          /\ lastUpsert.zipcode = zipCodes[testIdx - 1].zipcode
          /\ lastUpsert.state = zipCodes[testIdx - 1].state
          /\ lastUpsert.addressLine = <<"Error">> /\ lastUpsert.city = <<"Error">>

----------------------------------------------------------------------------
(* Properties of processZipCode, searchForLocationType and the CSV files *)

\* the step reads an aria-label that passes the consistency check and both
\* validators
HitStep ==
    /\ prog = "orch" /\ oPc = "click"
    /\ ~Falsy(completeAddress')
    /\ StateInCompleteAddress(completeAddress') = Unit.state
    /\ ZipcodeInCompleteAddress(completeAddress') = Unit.zipcode
    /\ IsValidAddressLine(AddressLineOf(completeAddress'))
    /\ IsValidCity(CityOf(completeAddress'))

\* the step ends the test of the unit with the row (addressLine, city)
ResolvesWith(addressLine, city) ==
    /\ testIdx' = testIdx + 1 /\ termIdx' = 1
    /\ lastUpsert'.called
    /\ lastUpsert'.zipcode = Unit.zipcode /\ lastUpsert'.state = Unit.state
    /\ lastUpsert'.addressLine = addressLine /\ lastUpsert'.city = city

SameUnit == testIdx' = testIdx /\ lastUpsert' = lastUpsert

\* the step leaves the search type: the next one in SEARCH_TYPES, or
\* 'Not Found' after the last
LeavesTerm ==
    IF termIdx < Len(SEARCH_TYPES)
    THEN SameUnit /\ termIdx' = termIdx + 1 /\ oPc' = "search"
    ELSE ResolvesWith(<<"Not", SP, "Found">>, <<"Not", SP, "Found">>)

\* C6: the search types are tried in the order of SEARCH_TYPES and the
\* search results in the order listed.  A search type is left for the next
\* only when its search listed nothing or its last result was not a hit; the
\* first result that passes the consistency check and both validators ends
\* the unit with that address, so that no search and no click follows it;
\* the unit ends with 'Not Found' exactly when the last search type is left
\* without a hit.
C6_TermsAndEntriesInOrder ==
    [][ (prog = "orch" /\ oPc \in {"search", "click"}) =>
          IF oPc = "search"
          THEN \/ /\ SameUnit /\ termIdx' = termIdx /\ oPc' = "click"
                  /\ searchResults' >= 1 /\ resIdx' = 1
               \/ LeavesTerm
          ELSE IF HitStep
               THEN ResolvesWith(AddressLineOf(completeAddress'),
                                 CityOf(completeAddress'))
               ELSE IF resIdx < searchResults
                    THEN /\ SameUnit /\ termIdx' = termIdx /\ oPc' = "click"
                         /\ searchResults' = searchResults /\ resIdx' = resIdx + 1
                    ELSE LeavesTerm ]_vars

C6_Witness ==
    /\ prog = "orch" /\ lastUpsert.called
    /\ lastUpsert.termIdx = 2 /\ lastUpsert.resIdx = 2
    /\ lastUpsert.addressLine = MainSt /\ lastUpsert.city = Str("Springfield")
    /\ testIdx = 2

\* the data row of the output file with the key of the last updateFinalCSV
OutputFile == files[CsvFilePath(TOTAL_SHARDS, SHARD_INDEX)]
PersistedRow ==
    LET lines == OutputFile.lines
    IN  ParseRecord(lines[FindRow(lines, lastUpsert.zipcode, lastUpsert.state)], 2, 3)

NonSentinel(text) ==
    text \notin {EmptyStr, UndefinedStr, <<"Not", SP, "Found">>, <<"Error">>}

\* every row of the output file with an address holds text that passes both
\* validators, and the row updated last holds a candidate whose aria-label
\* named the unit's state and zipcode
InPlaceRowsValidated ==
    prog = "orch" =>
        /\ OutputFile.exists =>
              \A i \in 2..Len(OutputFile.lines) :
                 LET row == ParseRecord(OutputFile.lines[i], 2, 3)
                 IN  (~IsBlank(OutputFile.lines[i]) /\ NonSentinel(row.address)) =>
                        IsValidAddressLine(row.address) /\ IsValidCity(row.city)
        /\ (lastUpsert.called /\ lastUpsert.rowFound
                /\ NonSentinel(lastUpsert.addressLine)) =>
              /\ PersistedRow.address = lastUpsert.addressLine
              /\ PersistedRow.city = lastUpsert.city
              /\ AddressLineOf(lastUpsert.source) = lastUpsert.addressLine
              /\ CityOf(lastUpsert.source) = lastUpsert.city
              /\ StateInCompleteAddress(lastUpsert.source) = lastUpsert.state
              /\ ZipcodeInCompleteAddress(lastUpsert.source) = lastUpsert.zipcode

C10_ShardRowExistsAtUpsert ==
    (prog = "orch" /\ TOTAL_SHARDS > 1 /\ lastUpsert.called) =>
        /\ lastUpsert.rowFound
        /\ RowFound(OutputFile, lastUpsert.zipcode, lastUpsert.state)
        /\ PersistedRow.address = lastUpsert.addressLine
        /\ PersistedRow.city = lastUpsert.city

----------------------------------------------------------------------------
(* Properties of the sharding of readZipCodesFromCSV *)

Pending == NoAddressRecords(files[MasterPath], TARGET_STATE)
PendingUnits ==
    [j \in 1..Len(Pending) |-> [zipcode |-> Pending[j].zipcode, state |-> Pending[j].state]]

\* ceil(n / k)
Ceil(n, k) == CHOOSE c \in 0..n : c * k >= n /\ (c = 0 \/ (c - 1) * k < n)

\* the positions (0-based) of the pending rows in the range of shardLoads[i]
RowsOf(i) ==
    { j \in 0..(Len(Pending) - 1) :
        shardLoads[i].startIndex <= j /\ j < shardLoads[i].endIndex }

\* C8: for n pending rows and k shards, the range of shard i is
\* [i*ceil(n/k), min((i+1)*ceil(n/k), n)); the ranges follow one another in
\* the order of the table without overlap, every pending row is in exactly
\* one of them, a shard whose start index is n or more selects nothing, and
\* a shard that the cap does not cut selects the rows of its range in order.
C8_ShardRangesPartition ==
    prog = "shard" =>
        LET n == Len(Pending)
            c == Ceil(n, TOTAL_SHARDS)
        IN  /\ \A i \in 1..Len(shardLoads) :
                  /\ shardLoads[i].startIndex = (i - 1) * c
                  /\ shardLoads[i].endIndex = Min(i * c, n)
                  /\ shardLoads[i].startIndex >= n => shardLoads[i].units = <<>>
                  /\ MAX_RECORDS_PER_SHARD >= c =>
                        shardLoads[i].units =
                            Slice(PendingUnits, (i - 1) * c, Min(i * c, n))
            /\ \A i, i2 \in 1..Len(shardLoads) :
                  i < i2 => \A j \in RowsOf(i), j2 \in RowsOf(i2) : j < j2
            /\ \A i \in 1..(Len(shardLoads) - 1) :
                  RowsOf(i + 1) # {} =>
                      shardLoads[i].endIndex = shardLoads[i + 1].startIndex
            /\ Len(shardLoads) = TOTAL_SHARDS =>
                  \A j \in 0..(n - 1) :
                      Cardinality({ i \in 1..TOTAL_SHARDS : j \in RowsOf(i) }) = 1

C8_Witness ==
    /\ prog = "shard" /\ TOTAL_SHARDS = 3 /\ Len(shardLoads) = 3
    /\ Len(Pending) = 4 /\ MAX_RECORDS_PER_SHARD >= 2
    /\ Len(shardLoads[1].units) = 2 /\ Len(shardLoads[2].units) = 2
    /\ shardLoads[3].units = <<>>

\* C9: for every shard index, every number of shards >= 1 and every cap,
\* readZipCodesFromCSV returns at most MAX_RECORDS_PER_SHARD units, the
\* first ones of the shard's range.
C9_CapBoundsSelection ==
    prog = "shard" =>
        \A i \in 1..Len(shardLoads) :
            LET range == Slice(PendingUnits, shardLoads[i].startIndex,
                               shardLoads[i].endIndex)
            IN  /\ Len(shardLoads[i].units) <= MAX_RECORDS_PER_SHARD
                /\ shardLoads[i].units =
                      Slice(range, 0, Min(MAX_RECORDS_PER_SHARD, Len(range)))

----------------------------------------------------------------------------
(* Properties of the record store *)

Upserted == prog = "store" /\ lastOp = "upsert"
Repaired == prog = "store" /\ lastOp = "initialize"
\* the file the last call was about, as the call left it
After == files[CsvFilePath(TOTAL_SHARDS, SHARD_INDEX)]
Fields(line) == Split(line, COMMA)

\* C11: updateFinalCSV changes only the address and the city field of the
\* first row whose key is (zipcode, state): the number of lines, their order,
\* the key of that row, its fields other than address and city, and every
\* other data row stay as they were; when no row has the key, or the file is
\* missing, the file stays as it was.
C11_UpsertChangesOnlyAddressAndCity ==
    Upserted =>
        IF ~lastUpsert.rowFound THEN After = before
        ELSE LET old == before.lines
                 new == After.lines
                 r == FindRow(old, lastUpsert.zipcode, lastUpsert.state)
                 o == Fields(old[r])
                 n == Fields(new[r])
             IN  /\ After.exists
                 /\ Len(new) = Len(old)
                 /\ \A k \in 2..Len(old) : k # r => new[k] = old[k]
                 /\ \A k \in 2..(r - 1) :
                       ~MatchesKey(old[k], lastUpsert.zipcode, lastUpsert.state)
                 /\ Nth(n, 0) = lastUpsert.zipcode /\ Nth(n, 1) = lastUpsert.state
                 /\ Nth(n, 2) = Quoted(lastUpsert.addressLine)
                 /\ Nth(n, 3) = Quoted(lastUpsert.city)
                 /\ \A j \in 1..(Len(o) + Len(n)) :
                       (j <= Len(o) \/ j <= Len(n)) /\ j \notin {3, 4} =>
                           j <= Len(o) /\ j <= Len(n) /\ n[j] = o[j]

\* the header initializeCSVHeaders found lacked the address or the city column
HeaderLacked(file) ==
    LET headerColumns == Fields(file.lines[1])
    IN  ~Includes(headerColumns, "address") \/ ~Includes(headerColumns, "city")

DataRows(file) == 2..Len(file.lines)

\* C13: after initializeCSVHeaders ran on an existing table, every data row
\* of the table has exactly 4 fields, whatever number of fields the rows had.
C13_RepairedRowsHaveFourFields ==
    Repaired /\ before.exists =>
        \A k \in DataRows(After) : Len(Fields(After.lines[k])) = 4

\* C14: after initializeCSVHeaders returned, the header stored in the file is
\* the canonical one whenever the header it found lacked the address or the
\* city column.
C14_RepairStoresCanonicalHeader ==
    Repaired /\ before.exists /\ HeaderLacked(before) =>
        After.lines[1] = CanonicalHeader

\* what the processes wrote so far, by path
OwnFilesOnly ==
    prog = "store" /\ TOTAL_SHARDS > 1 =>
        /\ writers[MasterPath] = {}
        /\ \A p \in Paths : \A i \in writers[p] : p = ShardPath(i)
        /\ \A p \in Paths : Cardinality(writers[p]) <= 1

\* the files a call changes
ChangesOwnFileOnly ==
    prog = "store" /\ TOTAL_SHARDS > 1 =>
        \A p \in Paths :
            files'[p] # files[p] =>
                p = ShardPath(SHARD_INDEX') /\ p # MasterPath /\ SHARD_INDEX' \in writers'[p]

\* C12: when TOTAL_SHARDS > 1, no process writes the master table and no
\* file is written by processes of two different SHARD_INDEX values: what
\* the process of shard i writes (creation, repair, upsert) is its own
\* output file.
C12_ShardsWriteOwnFileOnly == []OwnFilesOnly /\ [][ChangesOwnFileOnly]_vars

C12_Witness ==
    /\ prog = "store" /\ TOTAL_SHARDS = 2
    /\ writers[ShardPath(0)] = {0} /\ writers[ShardPath(1)] = {1}
    /\ lastOp = "upsert" /\ lastUpsert.rowFound /\ After # before

----------------------------------------------------------------------------
(* Properties of processInParallel and of main *)

\* the batch (0-based) a unit belongs to when the units are cut into
\* consecutive batches of maxConcurrency units
BatchOf(u) == (u - 1) \div maxConcurrency
NumBatches == (data + maxConcurrency - 1) \div maxConcurrency
Units == 1..data
Started(u) == unitSt[u].pc # "idle"
InFlight == { u \in Units : unitSt[u].pc \in {"call", "delay"} }
Resolved(u) ==
    /\ unitSt[u].pc = "done"
    /\ unitSt[u].result \in { FoundOutcome([addressline |-> "123 Main St",
                                            city |-> "Springfield"]),
                              NotFoundOutcome, ErrorOutcome("Navigation failed"),
                              ErrorOutcome("Timeout exceeded"),
                              ErrorOutcome("Max retries exceeded") }

\* C15: the units are dispatched in consecutive batches of maxConcurrency
\* units (the last one may be smaller); at most maxConcurrency units are in
\* flight; no unit of a batch starts before every unit of the batches before
\* it has resolved, retries and backoff delays included; delay(1000) follows
\* every batch but the last.
C15_BatchesRunOneAfterAnother ==
    prog = "parallel" =>
        /\ Cardinality(InFlight) <= maxConcurrency
        /\ \A u, v \in Units : BatchOf(u) = BatchOf(v) => (Started(u) <=> Started(v))
        /\ \A u, v \in Units : Started(u) /\ BatchOf(v) < BatchOf(u) => Resolved(v)
        /\ \A u \in Units : Started(u) => Len(batchDelays) >= BatchOf(u)
        /\ \A u \in Units : ~Started(u) => Len(batchDelays) <= BatchOf(u)
        /\ \A k \in 1..Len(batchDelays) :
              /\ batchDelays[k] = k - 1
              /\ batchDelays[k] < NumBatches - 1
              /\ \A v \in Units : BatchOf(v) = batchDelays[k] => Resolved(v)
        /\ parPc \in {"returned", "finalDetailed", "ended"} =>
              /\ Len(batchDelays) = NumBatches - 1
              /\ \A v \in Units : Resolved(v)

\* the second batch is in flight, one of its units in its backoff delay
C15_Witness ==
    /\ prog = "parallel" /\ data = 4 /\ maxConcurrency = 2 /\ retries >= 2
    /\ Resolved(1) /\ Resolved(2)
    /\ unitSt[3].pc = "delay" /\ unitSt[4].pc = "call"
    /\ batchDelays = <<0>>

\* the results of the units of the first b batches, in order
IsPrefix(a, b) == Len(a) <= Len(b) /\ a = SubSeq(b, 1, Len(a))
UnitsThrough(b) == Min(b * maxConcurrency, data)

\* every invocation of saveCallback received the results of all units of
\* the batches completed so far, and never fewer than the one before
SavesComplete ==
    \A k \in 1..Len(saves) :
        /\ Len(saves[k].received) = UnitsThrough(saves[k].batch + 1)
        /\ \A j \in 1..Len(saves[k].received) : saves[k].received[j].unit = j
        /\ IsPrefix(saves[k].received, results)
        /\ k > 1 => Len(saves[k - 1].received) <= Len(saves[k].received)

\* the batches (counted from 1) after which a save is due: every
\* SaveEvery-th batch and the last one
Checkpoint(b) == b % SaveEvery = 0 \/ b = NumBatches

\* saveCallback was invoked after the batch b (counted from 1)
SavedAfter(b) == \E k \in 1..Len(saves) : saves[k].batch + 1 = b

\* the batch b (counted from 1) and its save, if any, are over
Past(b) ==
    \/ chunkIdx + 1 > b
    \/ chunkIdx + 1 = b /\ parPc \in {"saveDetailed", "delay", "returned",
                                      "finalDetailed", "ended"}

SavesAtCheckpoints ==
    \A b \in 1..NumBatches :
        /\ SavedAfter(b) => Checkpoint(b)
        /\ Past(b) /\ Checkpoint(b) => SavedAfter(b)

LastSaveHasAll ==
    parPc \in {"returned", "finalDetailed", "ended"} =>
        /\ saves # <<>>
        /\ saves[Len(saves)].received = results
        /\ Len(results) = data

\* C16: saveCallback is invoked after a batch exactly at the checkpoints
\* (every 50 batches and at the end); each invocation receives the results
\* of every unit of every batch completed so far, and the last one the
\* results of all units.
C16_SavesEveryFiftyBatchesAndAtEnd ==
    prog = "parallel" => SavesAtCheckpoints /\ SavesComplete /\ LastSaveHasAll

\* what the k-th invocation of saveCallback received; nothing before the first
ReceivedAt(k) == IF k >= 1 THEN saves[k].received ELSE <<>>

\* C17: on SIGINT or SIGTERM the run exits at once, without invoking
\* saveCallback and without waiting for the batch in flight: the files hold
\* what the last save wrote (the detailed file that of the save before when
\* the signal came between the two writes of a save).
C17_SignalExitsWithoutSaving ==
    prog = "parallel" /\ parPc = "exited" =>
        /\ cleanFile = CleanRecords(ReceivedAt(Len(saves)))
        /\ \/ detailedFile = DetailedRecords(ReceivedAt(Len(saves)))
           \/ detailedFile = DetailedRecords(ReceivedAt(Len(saves) - 1))

\* the signal came while the third batch was in flight; the results of the
\* second batch were never saved
C17_Witness ==
    /\ prog = "parallel" /\ parPc = "exited" /\ lastOp = "signal"
    /\ InFlight # {}
    /\ Len(saves) = 1
    /\ Len(results) > Len(saves[1].received)
    /\ cleanFile = CleanRecords(saves[1].received)

\* C18: processWithRetry never rejects, whatever an attempt raises, so the
\* join of a batch never fails: the run is never aborted by a unit, and when
\* processInParallel returns every unit has its outcome in results.
C18_UnitFailureNeverAbortsRun ==
    prog = "parallel" =>
        /\ parPc # "failed"
        /\ \A u \in Units : unitSt[u].pc # "rejected"
        /\ \A k \in 1..Len(results) : results[k].unit = k /\ Resolved(k)
                                     /\ results[k].outcome = unitSt[k].result
        /\ parPc \in {"returned", "finalDetailed", "ended"} => Len(results) = data

\* every attempt of the first unit threw; the other unit of its batch and
\* the units of the next batch got their outcomes
C18_Witness ==
    /\ prog = "parallel" /\ parPc = "ended" /\ data = 4 /\ maxConcurrency = 2
    /\ retries = 2
    /\ results[1].outcome = ErrorOutcome("Timeout exceeded")
    /\ results[2].outcome.valid
    /\ results[3].outcome = NotFoundOutcome
    /\ results[4].outcome.valid

----------------------------------------------------------------------------
(* Properties of the browsing contexts *)

\* C19: every invocation of extractAddress runs in a browsing context created
\* for it, and by the time the invocation settles (with a result or with a
\* throw, a fault while opening the page included) that context is closed
\* and no longer among the tracked contexts.
C19_ContextReleasedWhenSettled ==
    prog = "pipeline" =>
        /\ exPc \notin {"idle", "context"} => attemptsMade \in contexts
        /\ exPc = "idle" => contexts = {}

----------------------------------------------------------------------------
(* Properties of the text normalizer *)

\* C20: cleanText / cleanAddressText is idempotent: cleaning a text that was
\* already cleaned returns it unchanged, whatever characters the text mixes.
C20_CleanTextIdempotent ==
    prog = "text" /\ passes = 2 => txt = cleaned

----------------------------------------------------------------------------
(* Properties of parseAddress *)

HasComma(s) == \E i \in 1..Len(s) : s[i] = COMMA
\* the text holds a substring that begins with a digit and ends in a suffix
HasStreetLine(s) == \E i \in 1..Len(s) : StreetMatchEndsAnywhere(s, i) # {}
IsStreetLine(s) == s # <<>> /\ s[1] \in Digits /\ SuffixEndsAt(s, Len(s))

\* C21: for a text without a comma, parseAddress returns an address line that
\* begins with a digit and ends in a street suffix whenever the text holds such
\* a substring, and otherwise the whole text with the city "Unknown".
C21_ParseFindsStreetLine ==
    prog = "parse" /\ parseDone /\ ~HasComma(fullAddress) =>
        IF HasStreetLine(CleanAddressText(fullAddress))
        THEN IsStreetLine(parsed.addressline)
        ELSE parsed = [addressline |-> CleanAddressText(fullAddress), city |-> UnknownCity]

----------------------------------------------------------------------------
(* Properties of extractAddressFromPage *)

\* the elements of an answer whose text qualifies
ListedHits(a) == { i \in 1..Len(a.elements) : QualifiesListed(a.elements[i]) }
FallbackHits(a) == { i \in 1..Len(a.elements) : QualifiesFallback(a.elements[i]) }
\* consulting the locator raises: the query fails, or an element asked for its
\* text before any qualifying one fails
StrategyRaises(a, hits) ==
    \/ a.raises
    \/ \E i \in 1..Len(a.elements) :
         a.elements[i] = ThrowingElement /\ \A j \in hits : i < j
Qualified(a, hits) == ~StrategyRaises(a, hits) /\ hits # {}
Candidate(a, hits) == CleanAddressText(a.elements[SetMin(hits)])

ListedStrategyStep ==
    selector' = selector + 1 =>
        IF Qualified(answer', ListedHits(answer'))
        THEN /\ pagePc' = "returned"
             /\ addressText' = Candidate(answer', ListedHits(answer'))
             /\ pageInfo' = ParseAddress(addressText')
        ELSE /\ pagePc' \in {"selectors", "fallback"}
             /\ addressText' = <<>>
FallbackStep ==
    pagePc = "fallback" /\ pagePc' = "returned" =>
        IF Qualified(answer', FallbackHits(answer'))
        THEN /\ addressText' = Candidate(answer', FallbackHits(answer'))
             /\ pageInfo' = ParseAddress(addressText')
        ELSE pageInfo' = NoAddressInfo
StrategiesInOrder ==
    /\ pagePc = "selectors" => selector < NumAddressSelectors /\ addressText = <<>>
    /\ pagePc = "fallback" => selector = NumAddressSelectors /\ addressText = <<>>
    /\ pagePc = "returned" /\ addressText = <<>> =>
          selector = NumAddressSelectors /\ pageInfo = NoAddressInfo

\* C22: extractAddressFromPage consults its locators in the order of the list
\* and returns the text of the first qualifying element of the first locator
\* that has one; a locator that raises is skipped; the span/div fallback is
\* consulted only after every listed locator failed to qualify; and nothing is
\* returned when nothing qualifies.
C22_FirstQualifyingTextWins ==
    /\ [](prog = "page" => StrategiesInOrder)
    /\ [][prog = "page" => ListedStrategyStep /\ FallbackStep]_vars
\* the third locator answers with two qualifying elements and the first is taken
C22_Witness ==
    /\ prog = "page" /\ pagePc = "returned" /\ selector = 3
    /\ answer.elements = <<AddressA, AddressB>>
    /\ addressText = CleanAddressText(AddressA)

----------------------------------------------------------------------------
(* Properties of the waits and the attempts of processWithRetry *)

\* C23: the waits between the attempts of one unit grow exponentially: each
\* wait is the same multiple, larger than one, of the wait before it.
C23_BackoffIsExponential ==
    prog = "retry" =>
        \A k \in 1..(Len(delays) - 1) :
            /\ delays[k + 1] > delays[k]
            /\ delays[k + 1] * delays[1] = delays[2] * delays[k]

\* the unit is finished and every attempt made for it ended in an error
AllAttemptsFailed == unitSt[1].pc = "done" /\ unitSt[1].result.addressline = "Error"

\* C24: retries counts the retries of a failed extraction: a unit whose every
\* attempt ends in an error is attempted retries + 1 times, the first attempt
\* and then retries more.
C24_FailedUnitAttemptedRetriesPlusOne ==
    prog = "retry" /\ AllAttemptsFailed => attemptsMade = retries + 1

----------------------------------------------------------------------------
(* Properties of the consistency check and the clicks of searchForLocationType *)

\* the aria-label has a third comma-separated part with a state and a zipcode
Parseable(ca) ==
    StateInCompleteAddress(ca) # UndefinedStr /\ ZipcodeInCompleteAddress(ca) # UndefinedStr
\* the step reads an aria-label whose address line and city pass the validators
ValidCandidateStep ==
    /\ prog = "orch" /\ oPc = "click"
    /\ ~Falsy(completeAddress')
    /\ IsValidAddressLine(AddressLineOf(completeAddress'))
    /\ IsValidCity(CityOf(completeAddress'))

\* C25: the zipcode/state consistency check rejects a candidate only when a
\* state and a zipcode were parsed from its full address and one of them
\* differs from the unit's; a candidate without a parseable state/zipcode is
\* not rejected by the check, so it is returned when the validators accept it.
C25_MismatchOnlyWhenParsed ==
    [][ ValidCandidateStep =>
          \/ ResolvesWith(AddressLineOf(completeAddress'), CityOf(completeAddress'))
          \/ /\ Parseable(completeAddress')
             /\ \/ StateInCompleteAddress(completeAddress') # Unit.state
                \/ ZipcodeInCompleteAddress(completeAddress') # Unit.zipcode ]_vars

\* C26: of the results one search lists, at most MaxResultAttempts = 3 are
\* opened, however many the page lists.
C26_AtMostThreeEntriesOpened ==
    prog = "search" /\ oPc = "click" => resIdx <= MaxResultAttempts

----------------------------------------------------------------------------
(* Properties of the capped selections of a matrix run *)

\* the shards (1-based) of the run whose selection holds the pending row at
\* position j (0-based)
SelectedBy(j) ==
    { i \in 1..Len(shardLoads) :
        \E m \in 1..Len(shardLoads[i].units) : shardLoads[i].units[m] = PendingUnits[j + 1] }
\* the row lies in the range of a shard, beyond its first MAX_RECORDS_PER_SHARD
BeyondCap(j) ==
    \E i \in 1..Len(shardLoads) :
        j \in RowsOf(i) /\ j >= shardLoads[i].startIndex + MAX_RECORDS_PER_SHARD

----------------------------------------------------------------------------
(* Properties of the workers of one shard *)

\* the row of the output table with the unit of worker w
WorkerRow(w) ==
    LET lines == files[OutputPath].lines
    IN  ParseRecord(lines[FindRow(lines, WorkerUnit(w).zipcode, WorkerUnit(w).state)], 2, 3)

\* C28: when the workers of one shard upsert the outcomes of different units
\* into the same table concurrently, the table holds every outcome once all
\* are done, whatever the order of their readFileSync and writeFileSync.
C28_ConcurrentUpsertsAllKept ==
    prog = "workers" /\ (\A w \in Workers : wPc[w] = "done") =>
        \A w \in Workers :
            /\ WorkerRow(w).address = wOutcome[w].addressLine
            /\ WorkerRow(w).city = wOutcome[w].city

----------------------------------------------------------------------------
(* Properties of the repair of initializeCSVHeaders *)

\* a blank line, or a row whose first field is empty or an empty quoted string
DroppedByRepair(line) ==
    IsBlank(line) \/ Fields(line)[1] = EmptyStr \/ Fields(line)[1] = <<QUOTE, QUOTE>>
KeepsRow(line) == ~DroppedByRepair(line)

\* C29: initializeCSVHeaders keeps the rows it retains in their order, drops
\* exactly the blank lines and the rows whose first field is empty or an empty
\* quoted string, and leaves the text of every row of 4 fields as it was.
C29_RepairKeepsOrderAndFullRows ==
    prog = "repair" /\ lastOp = "initialize" /\ before.exists =>
        LET kept == SelectSeq(Tail(before.lines), KeepsRow)
            new == Tail(After.lines)
        IN  /\ Len(new) = Len(kept)
            /\ \A i \in 1..Len(kept) :
                  /\ IsPrefix(kept[i], new[i])
                  /\ Len(Fields(kept[i])) = 4 => new[i] = kept[i]
\* a row with an empty key is dropped, the two-field row after it is filled up
\* and the four-field row after that is kept as it was
C29_Witness ==
    /\ prog = "repair" /\ lastOp = "initialize" /\ before.exists
    /\ Tail(before.lines) = <<EmptyKeyRow("NY"), ShortRow("10001", "NY"), PendingRow("10002", "NY")>>
    /\ Tail(After.lines) = <<PendingRow("10001", "NY"), PendingRow("10002", "NY")>>

----------------------------------------------------------------------------
(* Properties of the selection of readZipCodesFromCSV *)

\* the data rows of a master table: the lines after the header that are not
\* blank, read by the positions of the header zipcode,state,address,city
MasterRecords(file) ==
    LET NotBlank(line) == ~IsBlank(line)
        lines == SelectSeq(file.lines, NotBlank)
    IN  [i \in 1..(Len(lines) - 1) |-> ParseRecord(lines[i + 1], 2, 3)]
\* the rows whose state passes the filter and whose address or city is empty
RowsToSelect(file, targetState) ==
    LET Wanted(item) == PassesStateFilter(item, targetState) /\ HasNoAddress(item)
    IN  IF file.exists THEN SelectSeq(MasterRecords(file), Wanted) ELSE <<>>
UnitsOf(records) ==
    [i \in 1..Len(records) |-> [zipcode |-> records[i].zipcode, state |-> records[i].state]]

\* C30: the read of the master table selects a row if and only if its state
\* passes the target-state filter and its address or its city is empty: the
\* units a run is given are its shard's range of exactly those rows.
C30_SelectsExactlyPendingRowsOfTargetState ==
    [][prog = "orch" /\ oPc = "read" /\ oPc' # "read" =>
          zipCodes' = UnitsOf(FinalRecords(RowsToSelect(files[MasterPath], TARGET_STATE),
                                           SHARD_INDEX, TOTAL_SHARDS,
                                           MAX_RECORDS_PER_SHARD))]_vars

----------------------------------------------------------------------------
(* Properties of a run followed by the selection of the next run *)

\* C31: in unsharded mode, once every unit selected from a repaired table
\* has been resolved and upserted, the selection of the next run returns no
\* work unit.
C31_NothingPendingAfterRun ==
    prog = "resume" /\ oPc = "reselected" => zipCodes = <<>>

----------------------------------------------------------------------------
(* Properties of the result list of processInParallel *)

\* C32: processInParallel returns exactly one outcome per input work unit:
\* the result list has the length of the input list and its i-th outcome is
\* the outcome of the i-th input unit, in whatever order the units of a batch
\* completed.
C32_OneOutcomePerUnitInInputOrder ==
    /\ prog = "parallel" =>
          \A i \in 1..Len(results) :
             /\ results[i].unit = i
             /\ results[i].outcome = unitSt[i].result
    /\ prog = "parallel" /\ parPc \in {"returned", "finalDetailed", "ended"} =>
          Len(results) = data
\* a run of several batches has returned; in its first batch the first unit
\* ended in Error, which with retries = 2 it does after a backoff delay and
\* a second attempt, and the second unit was accepted
C32_Witness ==
    /\ prog = "parallel" /\ parPc = "returned"
    /\ maxConcurrency = 2 /\ data >= 3 /\ retries = 2
    /\ Len(results) = data
    /\ results[1].outcome = ErrorOutcome("Navigation failed")
    /\ results[2].outcome = FoundOutcome([addressline |-> "123 Main St",
                                           city |-> "Springfield"])

----------------------------------------------------------------------------
(* Properties of updateFinalCSV applied again *)

\* C33: applying updateFinalCSV a second time with the same outcome for the
\* same key leaves the table exactly as the first application left it.
C33_UpsertIsIdempotent ==
    Upserted /\ lastUpsert.rowFound =>
        UpdateFinalCSV(After, lastUpsert.zipcode, lastUpsert.state,
                       lastUpsert.addressLine, lastUpsert.city) = After
\* the second of two calls with the same outcome: the row it found held that
\* outcome already, written by the first call
C33_Witness ==
    /\ Upserted /\ lastUpsert.rowFound /\ storeCalls = 2
    /\ before = After
    /\ lastUpsert.addressLine = MainSt
    /\ After.lines[2] = DoneRow("10001", "NY")

----------------------------------------------------------------------------
(* Properties of the step-by-step extractor of the test suite *)

\* C34: the final return of a 'Not Found' outcome is never reached: every run
\* of extractAddress ends with an extracted address or, after a step failure,
\* with an 'Error' outcome.
C34_NotFoundNeverReturned ==
    prog = "steps" /\ stepPc = "returned" =>
        /\ stepResult # StepNotFound
        /\ stepResult.addressline # "Not Found"
        /\ \/ stepResult.addressline = "Error" /\ stepResult.city = "Error"
           \/ \E info \in AddressInfos :
                 /\ info.addressline # "" /\ info.city # ""
                 /\ stepResult = FoundOutcome(info)
\* the result page was opened and no address could be extracted from it: the
\* run ended in the Error of step 5
C34_Witness ==
    /\ prog = "steps" /\ stepPc = "returned"
    /\ stepResult = ErrorOutcome(StepError(5, "Address extraction failed").message)

----------------------------------------------------------------------------
(* Properties of the files written by writeResults and writeDetailedResults *)

IsErrorOutcome(r) == r.addressline = "Error" /\ r.city = "Error"

----------------------------------------------------------------------------
(* Properties of the attempts of processWithRetry *)

\* C36: for every value of retries, processWithRetry invokes the extraction
\* at least once before it returns an outcome.
C36_AttemptedBeforeReturn ==
    prog = "retry" /\ unitSt[1].pc = "done" => attemptsMade >= 1

\* C37: an attempt that ends with an Error outcome while fewer than retries
\* attempts have been made is followed by another attempt: an Error outcome
\* is final only after the last allowed attempt, whatever its message.
C37_ErrorFinalOnlyAfterLastAttempt ==
    prog = "pipeline" /\ pwrPc \in {"done", "written"} /\ result.addressline = "Error" =>
        attemptsMade = retries

----------------------------------------------------------------------------
(* Properties of initializeCSVHeaders run again *)

\* C38: initializeCSVHeaders is idempotent: run on the file a run of it has
\* left, it leaves the file as it is and performs no write.
C38_RepairIsIdempotent ==
    Repaired /\ After.exists =>
        /\ InitializeCSVHeaders(After, TOTAL_SHARDS) = After
        /\ ~InitializeWrites(After, TOTAL_SHARDS)

----------------------------------------------------------------------------
(* Properties of run-local-sharded.sh *)

AllShardsFinished ==
    launched = TOTAL_SHARDS /\ \A i \in ScriptShards : shPc[i] \in {"done", "aborted"}

\* C39: when the script is run with a target state other than ALL, the test
\* file is back at its original content (TARGET_STATE = 'ALL') once all
\* shards have finished, however their steps interleave.
C39_TestFileRestored ==
    prog = "script" /\ targetArg # <<"ALL">> /\ AllShardsFinished =>
        specFile = TargetString("ALL")

====
